---- MODULE Spec2Model ----
(***************************************************************************)
(* Board state model (GameBoard) and best-first search engine (Solver) of  *)
(* src/src/solver.py, on the hexagonal grid of src/src/grid_manager.py.    *)
(*                                                                         *)
(* Conventions.                                                            *)
(*  - Cell indices are the Python list indices 0..n-1; the off-grid        *)
(*    neighbour is -1 as in GridManager._calculate_neighbors.              *)
(*  - A cell state is a record with the dict's keys: element, state and,   *)
(*    once _update_unlock_status has run, unlocked.                        *)
(*  - Costs are kept in tenths, so that the default weights                *)
(*    0.5 / 0.1 / 1.0 / 1.5 are the integers 5 / 1 / 10 / 15 and one move  *)
(*    of g_cost adds GScale to f_cost.                                     *)
(*  - Inside one search a board is identified with its cell-state          *)
(*    sequence: GameBoard.__eq__ compares hashes of that sequence, and     *)
(*    the hash is taken to be collision free on the boards of one run.     *)
(***************************************************************************)
EXTENDS Integers, Sequences, FiniteSets, TLC

VARIABLES
    hex_states,          \* GameBoard.hex_states of the board the caller holds
    identified_elements, \* the detector's list handed to update_board_state
    last_op,             \* the GameBoard method that produced hex_states
    h_weights,           \* Solver.h_weights
    interrupt_config,    \* Solver.interrupt_config
    open_set,            \* solve: the heapq list (frontier)
    closed_set,          \* solve: the set of expanded boards
    iteration,           \* solve: loop counter
    pops,                \* number of heappop calls made by solve so far
    pc,                  \* position of solve: idle, loop, pop, done
    result,              \* the value solve returned
    ending,              \* which return statement of solve was executed
    expanded,            \* history: the boards solve tested with is_solved
    check_values,        \* the arguments of the last call of _check_interrupt
    check_outcome,       \* how that call ended: "True", "False" or "raised"
    dicts,               \* the cell dicts that exist, by reference
    lists,               \* the hex_states lists that exist: references to dicts
    boards,              \* the GameBoard objects: hex_states reference, _hash
    last_call,           \* the last GameBoard call: method, board, argument, outcome
    calls,               \* number of GameBoard calls made
    ctor_args,           \* Solver(...): the weights argument and the two files
    ctor_outcome,        \* how Solver.__init__ ended: "ok" or the exception
    h_outcome,           \* the heuristic of solve on a board: a value or KeyError
    runs,                \* solve under each way of attaching the sinks
    argv,                \* main.py: the command line after the program name
    args,                \* main.py: the RunArgs object handed to main
    run_count,           \* main: run_count
    cycles,              \* history: the value each run_single_cycle call returned
    clicks,              \* history: clicks on the 'Start New Game' button
    main_pc,             \* position of main
    success,             \* run_single_cycle: the first value it returned
    executed_solution,   \* the paths handed to InputManager.execute_solution
    hex_lists,           \* puzzle_recorder: the hex_states lists that exist
    simulator,           \* PuzzleSimulator: hex_states and move_history
    sim_call,            \* the last PuzzleSimulator or GUI call
    gui,                 \* PuzzleReplayGUI: selection, buttons, solving_thread
    threads              \* the solver threads that were started

boardVars  == <<hex_states, identified_elements, last_op>>
solverVars == <<h_weights, interrupt_config, open_set, closed_set, iteration,
                pops, pc, result, ending, expanded>>
checkVars  == <<check_values, check_outcome>>
objVars    == <<dicts, lists, boards, last_call, calls>>
ctorVars   == <<ctor_args, ctor_outcome, h_outcome>>
sinkVars   == <<runs>>
mainVars   == <<argv, args, run_count, cycles, clicks, main_pc, success,
                executed_solution>>
simVars    == <<hex_lists, simulator, sim_call, gui, threads>>
vars == <<hex_states, identified_elements, last_op, h_weights,
          interrupt_config, open_set, closed_set, iteration, pops, pc,
          result, ending, expanded, check_values, check_outcome,
          dicts, lists, boards, last_call, calls,
          ctor_args, ctor_outcome, h_outcome, runs,
          argv, args, run_count, cycles, clicks, main_pc, success,
          executed_solution, hex_lists, simulator, sim_call, gui, threads>>

----------------------------------------------------------------------------
(* Bounds of the model *)

GridRadius == 1       \* grid_radius of the hexagonal grid
MaxK == 5             \* largest threshold of an iteration interrupt
MaxIteration == 60    \* cap of the loop counter in the guard of the loop
MaxCalls == 3         \* most GameBoard calls in a run of the object model
MaxBoards == 3        \* most GameBoard objects in a run of the object model

----------------------------------------------------------------------------
(* GridManager: axial coordinates, indices and the neighbour table *)

Max(a, b) == IF a >= b THEN a ELSE b
Min(a, b) == IF a <= b THEN a ELSE b

\* r1, r2 of _calculate_hex_centers: the r-range of column q
R1(q) == Max(-GridRadius, -q - GridRadius)
R2(q) == Min(GridRadius, -q + GridRadius)

OnGrid(q, r) == /\ q \in (-GridRadius)..GridRadius
                /\ r \in R1(q)..R2(q)

\* idx at the moment the column q is started (columns are laid out in order)
RECURSIVE ColumnStart(_)
ColumnStart(q) ==
    IF q = -GridRadius THEN 0
    ELSE ColumnStart(q - 1) + (R2(q - 1) - R1(q - 1) + 1)

\* self.axial_to_index.get((q, r), -1)
axial_to_index(q, r) ==
    IF OnGrid(q, r) THEN ColumnStart(q) + (r - R1(q)) ELSE -1

AxialCoords == {c \in ((-GridRadius)..GridRadius) \X ((-GridRadius)..GridRadius) :
                    OnGrid(c[1], c[2])}

\* len(self.grid.hex_centers)
NumCells == Cardinality(AxialCoords)
Cells == 0..(NumCells - 1)

index_to_axial ==
    [i \in Cells |-> CHOOSE c \in AxialCoords : axial_to_index(c[1], c[2]) = i]

axial_directions ==
    << <<1, 0>>, <<0, 1>>, <<-1, 1>>, <<-1, 0>>, <<0, -1>>, <<1, -1>> >>

\* GridManager.neighbors: 6 neighbour indices per cell, -1 when off-grid
neighbors ==
    [i \in Cells |->
        [d \in 1..6 |->
            axial_to_index(index_to_axial[i][1] + axial_directions[d][1],
                           index_to_axial[i][2] + axial_directions[d][2])]]

----------------------------------------------------------------------------
(* Cell classifications *)

basic_elements == {"FIRE", "WATER", "EARTH", "AIR"}
metal_transmutation_order == <<"LEAD", "TIN", "IRON", "COPPER", "SILVER", "GOLD">>
metals == {metal_transmutation_order[k] : k \in 1..Len(metal_transmutation_order)}
Sentinels == {"EMPTY", "OUT_OF_BOUNDS", "UNKNOWN"}
Classifications ==
    basic_elements \cup metals \cup Sentinels
        \cup {"SALT", "VITAE", "MORS", "QUICKSILVER"}

\* h.get('unlocked', False)
GetUnlocked(h) == IF "unlocked" \in DOMAIN h THEN h.unlocked ELSE FALSE

\* the dict written into an emptied cell by apply_move
EmptiedCell == [element |-> "EMPTY", state |-> "normal", unlocked |-> FALSE]

\* GameBoard.__init__: every cell UNKNOWN, no unlocked key yet
ConstructedStates == [i \in Cells |-> [element |-> "UNKNOWN", state |-> "normal"]]

----------------------------------------------------------------------------
(* GameBoard *)

\* the test on the neighbour's classification inverted
neighbor_is_empty_mut(hs, i) ==
    [d \in 1..6 |->
        IF neighbors[i][d] = -1 THEN TRUE
        ELSE hs[neighbors[i][d]].element # "EMPTY"]

\* neighbor_is_empty of _update_unlock_status for cell i
neighbor_is_empty(hs, i) ==
    [d \in 1..6 |->
        IF neighbors[i][d] = -1 THEN TRUE
        ELSE hs[neighbors[i][d]].element = "EMPTY"]

\* neighbor_is_empty + neighbor_is_empty[:2]
is_empty_circular(hs, i) ==
    LET empty == neighbor_is_empty(hs, i)
    IN  empty \o SubSeq(empty, 1, 2)

\* the scan for 3 consecutive empty slots (for j in range(6): all(circ[j:j+3]))
is_unlocked_mut(hs, i) ==
    LET circular == neighbor_is_empty(hs, i)
    IN  \E j \in 1..6 :
            \A k \in j..Min(j + 2, 6) : circular[k]

is_unlocked(hs, i) ==
    LET circular == is_empty_circular(hs, i)
    IN  \E j \in 1..6 :
            \A k \in j..(j + 2) : circular[k]

_update_unlock_status(hs) ==
    [i \in Cells |->
        [element  |-> hs[i].element,
         state    |-> hs[i].state,
         unlocked |-> IF hs[i].element \in Sentinels THEN TRUE
                      ELSE is_unlocked(hs, i)]]

\* lowest_metal_on_board of _is_lowest_rank_metal; "None" when no metal
current_metals_on_board(hs) ==
    {hs[i].element : i \in Cells} \cap metals

lowest_metal_on_board(hs) ==
    IF current_metals_on_board(hs) = {} THEN "None"
    ELSE LET k == CHOOSE k \in 1..Len(metal_transmutation_order) :
                    /\ metal_transmutation_order[k] \in current_metals_on_board(hs)
                    /\ \A l \in 1..(k - 1) :
                          metal_transmutation_order[l] \notin current_metals_on_board(hs)
         IN metal_transmutation_order[k]

_is_lowest_rank_metal_mut(hs, metal_element) ==
    LET present == {hs[i].element : i \in {c \in Cells : GetUnlocked(hs[c])}} \cap metals
    IN  \E k \in 1..Len(metal_transmutation_order) :
            /\ metal_transmutation_order[k] = metal_element
            /\ metal_element \in present
            /\ \A l \in 1..(k - 1) : metal_transmutation_order[l] \notin present

_is_lowest_rank_metal(hs, metal_element) ==
    metal_element = lowest_metal_on_board(hs)

_is_valid_match_mut2(hs, idx1, idx2) ==
    LET e1 == hs[idx1].element
        e2 == hs[idx2].element
    IN  IF e1 \in basic_elements /\ e1 = e2 THEN TRUE
        ELSE IF e1 = "SALT" /\ (e2 \in basic_elements \/ e2 = "SALT") THEN TRUE
        ELSE IF e2 = "SALT" /\ (e1 \in basic_elements \/ e1 = "SALT") THEN TRUE
        ELSE IF e1 \in {"VITAE", "MORS"} /\ e2 \in {"VITAE", "MORS"} THEN TRUE
        ELSE IF e1 = "QUICKSILVER" /\ e2 \in metals /\ e2 # "QUICKSILVER"
            THEN _is_lowest_rank_metal(hs, e2)
        ELSE IF e2 = "QUICKSILVER" /\ e1 \in metals /\ e1 # "QUICKSILVER"
            THEN _is_lowest_rank_metal(hs, e1)
        ELSE FALSE

_is_valid_match_mut(hs, idx1, idx2) ==
    LET e1 == hs[idx1].element
        e2 == hs[idx2].element
    IN  IF e1 \in basic_elements /\ e1 = e2 THEN TRUE
        ELSE IF e1 = "SALT" /\ (e2 \in basic_elements \/ e2 = "SALT") THEN TRUE
        ELSE IF (e1 = "VITAE" /\ e2 = "MORS") \/ (e1 = "MORS" /\ e2 = "VITAE") THEN TRUE
        ELSE IF e1 = "QUICKSILVER" /\ e2 \in metals /\ e2 # "QUICKSILVER"
            THEN _is_lowest_rank_metal(hs, e2)
        ELSE IF e2 = "QUICKSILVER" /\ e1 \in metals /\ e1 # "QUICKSILVER"
            THEN _is_lowest_rank_metal(hs, e1)
        ELSE FALSE

_is_valid_match(hs, idx1, idx2) ==
    LET e1 == hs[idx1].element
        e2 == hs[idx2].element
    IN  IF e1 \in basic_elements /\ e1 = e2 THEN TRUE
        ELSE IF e1 = "SALT" /\ (e2 \in basic_elements \/ e2 = "SALT") THEN TRUE
        ELSE IF e2 = "SALT" /\ (e1 \in basic_elements \/ e1 = "SALT") THEN TRUE
        ELSE IF (e1 = "VITAE" /\ e2 = "MORS") \/ (e1 = "MORS" /\ e2 = "VITAE") THEN TRUE
        ELSE IF e1 = "QUICKSILVER" /\ e2 \in metals /\ e2 # "QUICKSILVER"
            THEN _is_lowest_rank_metal(hs, e2)
        ELSE IF e2 = "QUICKSILVER" /\ e1 \in metals /\ e1 # "QUICKSILVER"
            THEN _is_lowest_rank_metal(hs, e1)
        ELSE FALSE

\* remaining_elements of is_solved, as the set of cells holding a token
remaining_cells(hs) == {i \in Cells : hs[i].element \notin Sentinels}

is_solved_mut(hs) ==
    \/ remaining_cells(hs) = {}
    \/ /\ Cardinality(remaining_cells(hs)) = 1
       /\ \A i \in remaining_cells(hs) : hs[i].element \in metals

is_solved(hs) ==
    \/ remaining_cells(hs) = {}
    \/ /\ Cardinality(remaining_cells(hs)) = 1
       /\ \A i \in remaining_cells(hs) : hs[i].element = "GOLD"

\* apply_move: deep copy, both cells replaced, unlock status recomputed
\* a move that empties its first cell only
apply_move_mut(hs, move) ==
    _update_unlock_status(
        [i \in Cells |-> IF i = move[1] THEN EmptiedCell ELSE hs[i]])

apply_move(hs, move) ==
    _update_unlock_status(
        [i \in Cells |-> IF i = move[1] \/ i = move[2] THEN EmptiedCell ELSE hs[i]])

\* all index pairs (i, j), i < j, in the order of the two nested loops of
\* find_possible_moves (i ascending, then j ascending)
PairSet == {p \in Cells \X Cells : p[1] < p[2]}

PairBefore(p, q) == p[1] < q[1] \/ (p[1] = q[1] /\ p[2] < q[2])

AllPairs ==
    [k \in 1..Cardinality(PairSet) |->
        CHOOSE p \in PairSet : Cardinality({q \in PairSet : PairBefore(q, p)}) = k - 1]

find_possible_moves_mut(hs) ==
    LET u == _update_unlock_status(hs)
        Legal(m) == _is_valid_match(u, m[1], m[2])
    IN  SelectSeq(AllPairs, Legal)

\* find_possible_moves: the list of legal moves, in the order it is built
find_possible_moves(hs) ==
    LET u == _update_unlock_status(hs)
        unlocked_hexes == {i \in Cells : GetUnlocked(u[i])}
        Legal(m) == /\ m[1] \in unlocked_hexes
                    /\ m[2] \in unlocked_hexes
                    /\ _is_valid_match(u, m[1], m[2])
    IN  SelectSeq(AllPairs, Legal)

\* what __hash__ hashes: the tuple of the sorted items of every cell dict
__hash__(hs) == [i \in Cells |-> hs[i]]

__eq__(b1, b2) == __hash__(b1) = __hash__(b2)

\* an order that puts every board before every other
BoardLt_mut(b1, b2) == TRUE

__lt__(b1, b2) == FALSE

----------------------------------------------------------------------------
(* GameBoard objects: the same class with its references.  dicts holds the *)
(* cell dicts, lists the hex_states lists (sequences of indices into       *)
(* dicts), boards the GameBoard objects (a list index and the _hash cache).*)

\* self._hash = None
NoHash == <<>>

\* the cell dicts of list l, in list order
ListView(ds, l) == [k \in 1..Len(l) |-> ds[l[k]]]

\* the same, indexed by cell (the list has one entry per cell)
CellView(ds, l) == [i \in Cells |-> ds[l[i + 1]]]

\* hash(tuple(tuple(sorted(d.items())) for d in self.hex_states)): the
\* hashed tuple stands for its hash
tuple_hash(ds, l) == ListView(ds, l)

\* hex_info['unlocked'] = value
SetUnlocked(d, value) ==
    [element |-> d.element, state |-> d.state, unlocked |-> value]

\* a pass that writes the opposite of the flag a dict already carries
update_unlock_in_place_mut(ds, l) ==
    [d \in 1..Len(ds) |->
        IF \E k \in 1..Len(l) : l[k] = d
        THEN SetUnlocked(ds[d], IF "unlocked" \in DOMAIN ds[d]
                                THEN ~ds[d].unlocked ELSE TRUE)
        ELSE ds[d]]

\* _update_unlock_status on the dicts of list l, in place: a dict that sits
\* at several indices keeps the flag written for the last of them
update_unlock_in_place(ds, l) ==
    LET hs == CellView(ds, l)
        flag(i) == IF hs[i].element \in Sentinels THEN TRUE ELSE is_unlocked(hs, i)
        last(d) == CHOOSE i \in Cells :
                       /\ l[i + 1] = d
                       /\ \A j \in Cells : l[j + 1] = d => j <= i
    IN  [d \in 1..Len(ds) |->
            IF \E i \in Cells : l[i + 1] = d
            THEN SetUnlocked(ds[d], flag(last(d)))
            ELSE ds[d]]

\* the loop of deepcopy over the entries of list l from position k on: memo
\* maps the dicts copied so far to their copies, copy is the new list so far
RECURSIVE DeepCopyLoop(_, _, _, _, _)
DeepCopyLoop(ds, l, k, memo, copy) ==
    IF k > Len(l) THEN [dicts |-> ds, list |-> copy]
    ELSE IF l[k] \in DOMAIN memo
        THEN DeepCopyLoop(ds, l, k + 1, memo, Append(copy, memo[l[k]]))
    ELSE DeepCopyLoop(Append(ds, ds[l[k]]), l, k + 1,
                      (l[k] :> (Len(ds) + 1)) @@ memo, Append(copy, Len(ds) + 1))

\* copy.copy would share the list of the original
deepcopy_mut(ds, ls, h) == [dicts |-> ds, lists |-> ls, list |-> h]

\* copy.deepcopy(self), as far as hex_states goes (h is the reference of the
\* original's list): a new list of new dicts, one per distinct dict of the
\* original (the memo keeps aliases aliased)
deepcopy(ds, ls, h) ==
    LET copied == DeepCopyLoop(ds, ls[h], 1, <<>>, <<>>)
    IN  [dicts |-> copied.dicts,
         lists |-> Append(ls, copied.list),
         list  |-> Len(ls) + 1]

\* list indices Python accepts for a list of one entry per cell, and the
\* position (from 1) an accepted index denotes
IndexInRange(idx) == idx \in (-NumCells)..(NumCells - 1)
ListPosition(idx) == IF idx < 0 THEN idx + NumCells + 1 ELSE idx + 1

LengthMismatch_mut(identified, hs) == FALSE

\* len(identified_elements) != len(self.hex_states)
LengthMismatch(identified, hs) == Len(identified) # Len(hs)

----------------------------------------------------------------------------
(* Solver: heuristic, frontier order, heapq *)

GScale == 10   \* one move of g_cost, in tenths

\* the defaults of _load_heuristic_weights, in tenths
DefaultWeights ==
    [remaining_elements_factor |-> 5,
     locked_marbles_penalty    |-> 1,
     salt_marbles_reward       |-> 10,
     metal_marbles_penalty     |-> 15]

\* Heuristic v2.1 of solve
h_cost(hs, w) ==
    LET remaining_elements == remaining_cells(hs)
        locked_marbles == Cardinality({i \in remaining_elements : ~GetUnlocked(hs[i])})
        salt_marbles   == Cardinality({i \in remaining_elements : hs[i].element = "SALT"})
        metal_marbles  == Cardinality({i \in remaining_elements :
                              hs[i].element \in metals \/ hs[i].element = "QUICKSILVER"})
    IN  (Cardinality(remaining_elements) * w.remaining_elements_factor)
        + (locked_marbles * w.locked_marbles_penalty)
        - (salt_marbles * w.salt_marbles_reward)
        + (metal_marbles * w.metal_marbles_penalty)

\* the value None and a returned list of moves
None == [none |-> TRUE, path |-> <<>>]
PathResult(path) == [none |-> FALSE, path |-> path]

\* the value of "return None" at the interrupt check (line 316) and after
\* the loop (line 399)
SearchInterrupted == None
NoSolutionFound == None

\* comparison of two moves (tuples of two ints)
MoveLt(m, n) == m[1] < n[1] \/ (m[1] = n[1] /\ m[2] < n[2])

\* comparison of two paths (lists of moves)
PathLt(p, q) ==
    LET diff == {k \in 1..Min(Len(p), Len(q)) : p[k] # q[k]}
    IN  IF diff = {} THEN Len(p) < Len(q)
        ELSE MoveLt(p[CHOOSE k \in diff : \A l \in diff : k <= l],
                    q[CHOOSE k \in diff : \A l \in diff : k <= l])

\* parent_board is <<>> for None and <<board>> for a board
ParentEq(p, q) ==
    \/ p = <<>> /\ q = <<>>
    \/ p # <<>> /\ q # <<>> /\ __eq__(p[1], q[1])

\* a < b raises TypeError: reached only at the parent position, None < board
TupleLtRaises(a, b) ==
    /\ a.f_cost = b.f_cost
    /\ a.g_cost = b.g_cost
    /\ __eq__(a.board, b.board)
    /\ a.path = b.path
    /\ a.parent_board = <<>>
    /\ b.parent_board # <<>>

\* a < b for two frontier tuples (f_cost, g_cost, board, path, parent_board)
TupleLt(a, b) ==
    IF a.f_cost # b.f_cost THEN a.f_cost < b.f_cost
    ELSE IF a.g_cost # b.g_cost THEN a.g_cost < b.g_cost
    ELSE IF ~__eq__(a.board, b.board) THEN __lt__(a.board, b.board)
    ELSE IF a.path # b.path THEN PathLt(a.path, b.path)
    ELSE IF ~ParentEq(a.parent_board, b.parent_board)
        THEN (IF a.parent_board # <<>> /\ b.parent_board # <<>>
              THEN __lt__(a.parent_board[1], b.parent_board[1])
              ELSE FALSE)
    ELSE FALSE

\* heapq._siftdown; positions are the 0-based list positions
RECURSIVE SiftDownLoop(_, _, _, _)
SiftDownLoop(heap, startpos, pos, newitem) ==
    IF pos > startpos /\ TupleLt(newitem, heap[((pos - 1) \div 2) + 1])
    THEN SiftDownLoop([heap EXCEPT ![pos + 1] = heap[((pos - 1) \div 2) + 1]],
                      startpos, (pos - 1) \div 2, newitem)
    ELSE [heap EXCEPT ![pos + 1] = newitem]

_siftdown(heap, startpos, pos) == SiftDownLoop(heap, startpos, pos, heap[pos + 1])

\* heapq._siftup
RECURSIVE SiftUpLoop(_, _, _, _, _)
SiftUpLoop(heap, startpos, pos, childpos, newitem) ==
    IF childpos < Len(heap)
    THEN LET rightpos == childpos + 1
             c == IF rightpos < Len(heap)
                     /\ ~TupleLt(heap[childpos + 1], heap[rightpos + 1])
                  THEN rightpos ELSE childpos
         IN  SiftUpLoop([heap EXCEPT ![pos + 1] = heap[c + 1]],
                        startpos, c, 2 * c + 1, newitem)
    ELSE _siftdown([heap EXCEPT ![pos + 1] = newitem], startpos, pos)

_siftup(heap, pos) == SiftUpLoop(heap, pos, pos, 2 * pos + 1, heap[pos + 1])

\* the item is appended and not sifted into place
heappush_mut(heap, item) == Append(heap, item)

heappush(heap, item) == _siftdown(Append(heap, item), 0, Len(heap))

\* heappop: the item returned and the heap left behind
heappop_item(heap) == heap[1]

heappop_rest_mut(heap) == heap

heappop_rest(heap) ==
    IF Len(heap) = 1 THEN <<>>
    ELSE _siftup([SubSeq(heap, 1, Len(heap) - 1) EXCEPT ![1] = heap[Len(heap)]], 0)

InClosedSet_mut(board, cs) == FALSE

\* board in closed_set
InClosedSet(board, cs) == \E c \in cs : __eq__(c, board)

new_path_mut2(path, move) == path \o <<move, move>>

\* new_path = path + [move]
new_path_mut(path, move) == <<move>> \o path

new_path(path, move) == Append(path, move)

\* the successor keeps the g_cost of the expanded node
Successor_mut(node, move, w) ==
    LET next_board == apply_move(node.board, move)
        new_g_cost == node.g_cost
    IN  [f_cost       |-> new_g_cost * GScale + h_cost(next_board, w),
         g_cost       |-> new_g_cost,
         board        |-> next_board,
         path         |-> new_path(node.path, move),
         parent_board |-> <<node.board>>]

\* the tuple pushed for one successor of the expanded node
Successor(node, move, w) ==
    LET next_board == apply_move(node.board, move)
        new_g_cost == node.g_cost + 1
    IN  [f_cost       |-> new_g_cost * GScale + h_cost(next_board, w),
         g_cost       |-> new_g_cost,
         board        |-> next_board,
         path         |-> new_path(node.path, move),
         parent_board |-> <<node.board>>]

\* for move in possible_moves: skip closed successors, push the others
RECURSIVE PushMoves(_, _, _, _, _, _)
PushMoves(heap, node, possible_moves, k, cs, w) ==
    IF k > Len(possible_moves) THEN heap
    ELSE IF InClosedSet(apply_move(node.board, possible_moves[k]), cs)
        THEN PushMoves(heap, node, possible_moves, k + 1, cs, w)
    ELSE PushMoves(heappush(heap, Successor(node, possible_moves[k], w)),
                   node, possible_moves, k + 1, cs, w)

PushSuccessors_mut(heap, node, cs, w) ==
    LET possible_moves == find_possible_moves(node.board)
    IN  PushMoves(heap, node, SubSeq(possible_moves, 1, Min(1, Len(possible_moves))),
                  1, cs, w)

PushSuccessors(heap, node, cs, w) ==
    PushMoves(heap, node, find_possible_moves(node.board), 1, cs, w)

----------------------------------------------------------------------------
(* Solver: interrupt conditions *)

OpNames == {">", "<", "==", "!=", ">=", "<="}

ops_mut(op, a, b) ==
    CASE op = ">"  -> a > b
      [] op = "<"  -> a < b
      [] op = "==" -> a = b
      [] op = "!=" -> a # b
      [] op = ">=" -> a > b
      [] op = "<=" -> a <= b

\* ops[op](a, b)
ops(op, a, b) ==
    CASE op = ">"  -> a > b
      [] op = "<"  -> a < b
      [] op = "==" -> a = b
      [] op = "!=" -> a # b
      [] op = ">=" -> a >= b
      [] op = "<=" -> a <= b

\* a JSON number and a JSON string as the value of a leaf
Num(n) == [num |-> n]
Str(t) == [str |-> t]

\* the operators that order their operands: on a number and a string they
\* raise TypeError
OrderingOps == {">", "<", ">=", "<="}

\* ops[op](values[var], val)
Compare(op, metric, val) ==
    IF "num" \in DOMAIN val THEN ops(op, metric, val.num)
    ELSE op = "!="

\* the logic name compared as it is written
Upper_mut(s) == s

\* str.upper() on the logic names the model uses
Upper(s) ==
    CASE s = "and" -> "AND"
      [] s = "or"  -> "OR"
      [] OTHER     -> s

LeafKnown_mut(condition, values) == TRUE

\* if var in values and op in ops
LeafKnown(condition, values) ==
    /\ condition.variable \in DOMAIN values
    /\ condition.operator \in OpNames

\* the evaluation of a leaf raises: KeyError on a missing field or on a
\* failed lookup values[var] / ops[op], TypeError on ordering a number and
\* a string
LeafRaises(condition, values) ==
    \/ ~({"variable", "operator", "value"} \subseteq DOMAIN condition)
    \/ /\ LeafKnown(condition, values)
       /\ \/ condition.variable \notin DOMAIN values
          \/ condition.operator \notin OpNames
          \/ /\ condition.operator \in OrderingOps
             /\ "num" \notin DOMAIN condition.value

\* the result appended for a leaf
LeafResult(condition, values) ==
    IF LeafKnown(condition, values)
    THEN Compare(condition.operator, values[condition.variable], condition.value)
    ELSE FALSE

\* _evaluate_conditions raises instead of returning
RECURSIVE _evaluate_conditions_raises(_, _)
_evaluate_conditions_raises(condition_set, values) ==
    \/ "conditions" \notin DOMAIN condition_set
    \/ \E k \in 1..Len(condition_set.conditions) :
          LET condition == condition_set.conditions[k]
          IN  IF "logic" \in DOMAIN condition
              THEN _evaluate_conditions_raises(condition, values)
              ELSE LeafRaises(condition, values)
    \/ "logic" \notin DOMAIN condition_set

\* the value _evaluate_conditions returns when it does not raise
RECURSIVE _evaluate_conditions(_, _)
_evaluate_conditions(condition_set, values) ==
    LET results ==
            [k \in 1..Len(condition_set.conditions) |->
                LET condition == condition_set.conditions[k]
                IN  IF "logic" \in DOMAIN condition
                    THEN _evaluate_conditions(condition, values)
                    ELSE LeafResult(condition, values)]
    IN  IF Upper(condition_set.logic) = "AND"
        THEN \A k \in 1..Len(results) : results[k]
        ELSE IF Upper(condition_set.logic) = "OR"
        THEN \E k \in 1..Len(results) : results[k]
        ELSE FALSE

\* the check goes on to the condition tree whatever enabled says
Enabled_mut(config) == TRUE

\* interrupt_config.get("enabled", False)
Enabled(config) == IF "enabled" \in DOMAIN config THEN config.enabled ELSE FALSE

\* values of _check_interrupt
Metrics(iter, open_set_size, best_g_cost, elapsed_time) ==
    [iteration     |-> iter,
     open_set_size |-> open_set_size,
     best_g_cost   |-> best_g_cost,
     elapsed_time  |-> elapsed_time]

\* _check_interrupt raises: KeyError on a missing condition_set, or the
\* evaluator raises
_check_interrupt_raises(config, iter, open_set_size, best_g_cost, elapsed_time) ==
    /\ Enabled(config)
    /\ \/ "condition_set" \notin DOMAIN config
       \/ _evaluate_conditions_raises(config.condition_set,
              Metrics(iter, open_set_size, best_g_cost, elapsed_time))

\* the value _check_interrupt returns when it does not raise
_check_interrupt(config, iter, open_set_size, best_g_cost, elapsed_time) ==
    IF ~Enabled(config) THEN FALSE
    ELSE _evaluate_conditions(config.condition_set,
            Metrics(iter, open_set_size, best_g_cost, elapsed_time))

----------------------------------------------------------------------------
(* Inputs *)

\* the cell next to the corner (GridRadius, 0) and the cluster around it
PlayCenter == axial_to_index(GridRadius - 1, 0)
ClusterCells == {PlayCenter} \cup ({neighbors[PlayCenter][d] : d \in 1..6} \ {-1})

\* the cells that hold the tokens of a board handed to the solver: the
\* centre and two pairs of opposite neighbours of it
PlayCells == {PlayCenter} \cup ({neighbors[PlayCenter][d] : d \in {1, 2, 4, 5}} \ {-1})

\* the cluster's centre and two opposite neighbours of it
MatchCells == {PlayCenter, neighbors[PlayCenter][1], neighbors[PlayCenter][4]}

\* a detector list: the given classifications, EMPTY elsewhere
InputList(f) ==
    [i \in Cells |->
        [element |-> IF i \in DOMAIN f THEN f[i] ELSE "EMPTY", state |-> "normal"]]

SolverKinds == {"FIRE", "WATER", "SALT", "GOLD"}
UnlockKinds == {"EMPTY", "FIRE", "UNKNOWN"}

\* boards handed to the solver: tokens of SolverKinds on any of PlayCells,
\* and a single token of any kind on one of PlayCells
SolverInputs ==
    {InputList(f) : f \in UNION {[S -> SolverKinds] : S \in SUBSET PlayCells}}
        \cup {InputList(c :> k) : c \in PlayCells, k \in Classifications \ Sentinels}

\* boards for the board operations: every classification on MatchCells,
\* and every pattern of empty / token / unknown cells on the cluster
BoardInputs ==
    {InputList(f) : f \in [MatchCells -> Classifications]}
        \cup {InputList(f) : f \in [ClusterCells -> UnlockKinds]}

WeightChoices ==
    {DefaultWeights,
     [remaining_elements_factor |-> -3,
      locked_marbles_penalty    |-> 7,
      salt_marbles_reward       |-> 0,
      metal_marbles_penalty     |-> -20]}

\* {"enabled": True, "condition_set": {"logic": "AND",
\*   "conditions": [{"variable": "iteration", "operator": ">=", "value": k}]}}
IterationInterrupt(k) ==
    [enabled |-> TRUE,
     condition_set |->
        [logic |-> "AND",
         conditions |-> << [variable |-> "iteration", operator |-> ">=",
                            value |-> Num(k)] >>]]

\* the default of _load_interrupt_config
DisabledInterrupt == [enabled |-> FALSE]

InterruptConfigs == {DisabledInterrupt} \cup {IterationInterrupt(k) : k \in 1..MaxK}

\* {"enabled": true} with no condition_set
NoConditionSet == [enabled |-> TRUE]

\* the solvers of the model: every weight choice without interrupt, and the
\* default weights with every interrupt configuration
SolverConfigs ==
    (WeightChoices \X {DisabledInterrupt})
        \cup ({DefaultWeights} \X (InterruptConfigs \cup {NoConditionSet}))

\* time.time() - start_time, in tenths of a second
ElapsedTimes == 0..1

\* leaves of condition trees: well formed ones, ones with a variable or an
\* operator the evaluator does not know, with a string value, and ones that
\* lack a field
Leaf(var, op, val) == [variable |-> var, operator |-> op, value |-> val]

GoodLeaves ==
    {Leaf("iteration", ">=", Num(2)), Leaf("open_set_size", "<", Num(2)),
     Leaf("best_g_cost", "==", Num(0)), Leaf("elapsed_time", "!=", Str("1"))}

UnknownLeaves ==
    {Leaf("depth", ">=", Num(0)), Leaf("iteration", "=>", Num(0)),
     Leaf("depth", "<", Str("0")), Leaf("closed_set_size", "~", Num(1))}

MalformedLeaves ==
    {[operator |-> ">=", value |-> Num(1)],
     [variable |-> "iteration", value |-> Num(1)],
     [variable |-> "iteration", operator |-> ">="],
     Leaf("iteration", ">=", Str("1"))}

TestLeaves == GoodLeaves \cup UnknownLeaves \cup MalformedLeaves

LogicNames == {"AND", "OR", "and", "or", "XOR"}

\* groups of one or two leaves
FlatGroups ==
    {[logic |-> l, conditions |-> c] :
        l \in LogicNames,
        c \in {<<a>> : a \in TestLeaves} \cup (GoodLeaves \X UnknownLeaves)
                \cup (UnknownLeaves \X GoodLeaves)
                \cup (GoodLeaves \X MalformedLeaves)}

\* a group inside a group, and groups that lack logic or conditions
NestedGroups ==
    {[logic |-> l, conditions |-> <<a, [logic |-> "AND", conditions |-> <<b>>]>>] :
        l \in {"AND", "OR"}, a \in UnknownLeaves, b \in GoodLeaves}

BrokenGroups ==
    {[conditions |-> <<a>>] : a \in GoodLeaves} \cup {[logic |-> "AND"]}

\* well-formed trees three groups deep: a leaf and a group, which holds a
\* leaf and a group of no or one leaf
DeepGroups ==
    {[logic |-> l1, conditions |->
        <<a, [logic |-> l2, conditions |->
                <<b, [logic |-> l3, conditions |-> c] >> ] >> ] :
        l1 \in {"AND", "OR"}, l2 \in {"OR", "and"}, l3 \in {"AND", "or", "XOR"},
        a \in {Leaf("iteration", ">=", Num(2)), Leaf("best_g_cost", "==", Num(0))},
        b \in {Leaf("open_set_size", "<", Num(2)), Leaf("iteration", "<=", Num(1))},
        c \in {<<>>, <<Leaf("elapsed_time", ">", Num(0))>>,
               <<Leaf("open_set_size", "!=", Num(1))>>}}

\* the configurations handed to _check_interrupt: enabled ones, and deep
\* trees in a configuration that is disabled or says nothing of enabled
TestConfigs ==
    {[enabled |-> TRUE, condition_set |-> g] :
        g \in FlatGroups \cup NestedGroups \cup BrokenGroups \cup DeepGroups}
        \cup {NoConditionSet}
        \cup {[enabled |-> FALSE, condition_set |-> g] :
                g \in {d \in DeepGroups : d.logic = "OR"}}
        \cup {[condition_set |-> g] :
                g \in {d \in DeepGroups : d.logic = "AND"}}

\* the arguments of _check_interrupt
MetricChoices ==
    {Metrics(i, q, g, t) : i \in 1..3, q \in 1..2, g \in 0..1, t \in ElapsedTimes}

----------------------------------------------------------------------------
(* State machine *)

\* a detector list as a Python list (positions from 1)
AsList(f) == [k \in 1..NumCells |-> InputList(f)[k - 1]]

\* two FIRE tokens, at the centre of the cluster and next to it
TwoFires == AsList((PlayCenter :> "FIRE") @@ (neighbors[PlayCenter][1] :> "FIRE"))

\* the lists handed to update_board_state in the object model: TwoFires,
\* the same with the centre token darkened, a locked SALT inside a ring of
\* FIRE, and lists one entry short and one entry long
ObjInputs ==
    {TwoFires,
     [TwoFires EXCEPT ![PlayCenter + 1].state = "darkened"],
     AsList([c \in ClusterCells |-> IF c = PlayCenter THEN "SALT" ELSE "FIRE"]),
     SubSeq(TwoFires, 1, NumCells - 1),
     Append(TwoFires, [element |-> "EMPTY", state |-> "normal"])}

\* the moves handed to apply_move in the object model: inside the grid,
\* and with an index that is negative, equal to the cell count, or below
\* minus the cell count
ObjMoves ==
    {<<PlayCenter, neighbors[PlayCenter][1]>>,
     <<neighbors[PlayCenter][1], neighbors[PlayCenter][4]>>,
     <<-1, PlayCenter>>,
     <<PlayCenter, NumCells>>,
     <<-NumCells - 1, neighbors[PlayCenter][1]>>}

\* what a dict of the list [{"element": "UNKNOWN", "state": "normal"}] * n is
UnknownCell == [element |-> "UNKNOWN", state |-> "normal"]

\* one GameBoard(gm) exists: its list holds one dict at every index
OneBoardConstructed ==
    /\ dicts = <<UnknownCell>>
    /\ lists = << [k \in 1..NumCells |-> 1] >>
    /\ boards = << [hex_states |-> 1, _hash |-> NoHash] >>
    /\ last_call = [op |-> "__init__", board |-> 1, arg |-> <<>>, outcome |-> "ok"]
    /\ calls = 0

\* main has not been entered and run_single_cycle has not returned
MainIdle ==
    /\ argv = <<>>
    /\ args = <<>>
    /\ run_count = 0
    /\ cycles = <<>>
    /\ clicks = 0
    /\ main_pc = "idle"
    /\ success = "none"
    /\ executed_solution = <<>>

\* no PuzzleReplayGUI exists
SimIdle ==
    /\ hex_lists = <<>>
    /\ simulator = <<>>
    /\ sim_call = <<>>
    /\ gui = <<>>
    /\ threads = <<>>

SearchIdle ==
    /\ open_set = <<>>
    /\ closed_set = {}
    /\ iteration = 0
    /\ pops = 0
    /\ pc = "idle"
    /\ result = None
    /\ ending = "none"
    /\ expanded = <<>>
    /\ check_values = <<>>
    /\ check_outcome = "none"
    /\ OneBoardConstructed
    /\ ctor_args = <<>>
    /\ ctor_outcome = "none"
    /\ h_outcome = <<>>
    /\ runs = <<>>

SolverIdle ==
    /\ SearchIdle
    /\ MainIdle
    /\ SimIdle

\* a constructed board and a constructed solver; no detector list yet
Init ==
    /\ hex_states = ConstructedStates
    /\ identified_elements = <<>>
    /\ last_op = "__init__"
    /\ \E config \in SolverConfigs :
          /\ h_weights = config[1]
          /\ interrupt_config = config[2]
    /\ SolverIdle

BoardInit ==
    /\ hex_states = ConstructedStates
    /\ identified_elements = <<>>
    /\ last_op = "__init__"
    /\ h_weights = DefaultWeights
    /\ interrupt_config = DisabledInterrupt
    /\ SolverIdle

\* identified_elements = ed.identify_elements(screenshot, gm): the detector
\* hands over one of the lists of inputs
IdentifyElements(inputs) ==
    /\ UNCHANGED <<checkVars, objVars, ctorVars, sinkVars, mainVars, simVars>>
    /\ pc = "idle"
    /\ last_op = "__init__"
    /\ identified_elements = <<>>
    /\ identified_elements' \in inputs
    /\ UNCHANGED <<hex_states, last_op, h_weights, interrupt_config, open_set,
                   closed_set, iteration, pops, pc, result, ending, expanded>>

IdentifySolverInput == IdentifyElements(SolverInputs)

IdentifyBoardInput == IdentifyElements(BoardInputs)

\* board.update_board_state(identified_elements), lengths agreeing
UpdateBoardState ==
    /\ UNCHANGED <<checkVars, objVars, ctorVars, sinkVars, mainVars, simVars>>
    /\ pc = "idle"
    /\ last_op = "__init__"
    /\ identified_elements # <<>>
    /\ DOMAIN identified_elements = DOMAIN hex_states
    /\ hex_states' = _update_unlock_status(identified_elements)
    /\ last_op' = "update_board_state"
    /\ UNCHANGED <<identified_elements, h_weights, interrupt_config, open_set,
                   closed_set, iteration, pops, pc, result, ending, expanded>>

\* board = board.apply_move((i, j)), for any two cells that are not EMPTY
\* (the legal moves are among these pairs)
ApplyMove ==
    /\ UNCHANGED <<checkVars, objVars, ctorVars, sinkVars, mainVars, simVars>>
    /\ pc = "idle"
    /\ last_op # "__init__"
    /\ \E i \in ClusterCells, j \in ClusterCells :
          /\ i < j
          /\ hex_states[i].element # "EMPTY"
          /\ hex_states[j].element # "EMPTY"
          /\ hex_states' = apply_move(hex_states, <<i, j>>)
    /\ last_op' = "apply_move"
    /\ UNCHANGED <<identified_elements, h_weights, interrupt_config, open_set,
                   closed_set, iteration, pops, pc, result, ending, expanded>>

\* solver.solve(board): lines 270-285
SolveBegin ==
    /\ UNCHANGED <<checkVars, objVars, ctorVars, sinkVars, mainVars, simVars>>
    /\ pc = "idle"
    /\ last_op = "update_board_state"
    /\ open_set' = << [f_cost |-> 0, g_cost |-> 0, board |-> hex_states,
                       path |-> <<>>, parent_board |-> <<>>] >>
    /\ closed_set' = {}
    /\ iteration' = 0
    /\ expanded' = <<>>
    /\ pc' = "loop"
    /\ UNCHANGED <<hex_states, identified_elements, last_op, h_weights,
                   interrupt_config, pops, result, ending>>

\* one pass through the head of the loop: count, progress line, interrupt check
LoopHead ==
    /\ UNCHANGED <<checkVars, objVars, ctorVars, sinkVars, mainVars, simVars>>
    /\ pc = "loop"
    /\ open_set # <<>>
    /\ iteration < MaxIteration
    /\ iteration' = iteration + 1
    /\ \E elapsed_time \in ElapsedTimes :
          IF _check_interrupt_raises(interrupt_config, iteration + 1, Len(open_set),
                                     open_set[1].g_cost, elapsed_time)
          THEN /\ ending' = "raised"
               /\ pc' = "done"
               /\ UNCHANGED result
          ELSE IF _check_interrupt(interrupt_config, iteration + 1, Len(open_set),
                                   open_set[1].g_cost, elapsed_time)
          THEN /\ result' = SearchInterrupted
               /\ ending' = "interrupted"
               /\ pc' = "done"
          ELSE /\ pc' = "pop"
               /\ UNCHANGED <<result, ending>>
    /\ UNCHANGED <<hex_states, identified_elements, last_op, h_weights,
                   interrupt_config, open_set, closed_set, pops, expanded>>

\* heappop, the popped board is already in closed_set: continue
Discard ==
    /\ UNCHANGED <<checkVars, objVars, ctorVars, sinkVars, mainVars, simVars>>
    /\ pc = "pop"
    /\ InClosedSet(heappop_item(open_set).board, closed_set)
    /\ open_set' = heappop_rest(open_set)
    /\ pops' = pops + 1
    /\ pc' = "loop"
    /\ UNCHANGED <<hex_states, identified_elements, last_op, h_weights,
                   interrupt_config, closed_set, iteration, result, ending,
                   expanded>>

\* heappop, the popped board is new and solved: return path
ReturnSolution ==
    /\ UNCHANGED <<checkVars, objVars, ctorVars, sinkVars, mainVars, simVars>>
    /\ pc = "pop"
    /\ ~InClosedSet(heappop_item(open_set).board, closed_set)
    /\ is_solved(heappop_item(open_set).board)
    /\ open_set' = heappop_rest(open_set)
    /\ pops' = pops + 1
    /\ closed_set' = closed_set \cup {heappop_item(open_set).board}
    /\ expanded' = Append(expanded, heappop_item(open_set).board)
    /\ result' = PathResult(heappop_item(open_set).path)
    /\ ending' = "solved"
    /\ pc' = "done"
    /\ UNCHANGED <<hex_states, identified_elements, last_op, h_weights,
                   interrupt_config, iteration>>

\* heappop, the popped board is new and not solved: push its successors
Expand ==
    /\ UNCHANGED <<checkVars, objVars, ctorVars, sinkVars, mainVars, simVars>>
    /\ pc = "pop"
    /\ ~InClosedSet(heappop_item(open_set).board, closed_set)
    /\ ~is_solved(heappop_item(open_set).board)
    /\ closed_set' = closed_set \cup {heappop_item(open_set).board}
    /\ open_set' = PushSuccessors(heappop_rest(open_set), heappop_item(open_set),
                                  closed_set \cup {heappop_item(open_set).board},
                                  h_weights)
    /\ expanded' = Append(expanded, heappop_item(open_set).board)
    /\ pops' = pops + 1
    /\ pc' = "loop"
    /\ UNCHANGED <<hex_states, identified_elements, last_op, h_weights,
                   interrupt_config, iteration, result, ending>>

\* the loop ends with an empty frontier: return None
Exhausted ==
    /\ UNCHANGED <<checkVars, objVars, ctorVars, sinkVars, mainVars, simVars>>
    /\ pc = "loop"
    /\ open_set = <<>>
    /\ result' = NoSolutionFound
    /\ ending' = "exhausted"
    /\ pc' = "done"
    /\ UNCHANGED <<hex_states, identified_elements, last_op, h_weights,
                   interrupt_config, open_set, closed_set, iteration, pops,
                   expanded>>

\* not solution_path, for the value solve returned: None and the empty list
\* are false
Falsy(solution_path) == solution_path.none \/ solution_path.path = <<>>

\* run_single_cycle after solver.solve(board) returned: the path goes to
\* im.execute_solution and True is returned, or False is returned
RunSingleCycleReturn ==
    /\ UNCHANGED <<boardVars, solverVars, checkVars, objVars, ctorVars, sinkVars,
                   simVars>>
    /\ pc = "done"
    /\ ending # "raised"
    /\ success = "none"
    /\ IF Falsy(result)
       THEN /\ success' = "False"
            /\ UNCHANGED executed_solution
       ELSE /\ success' = "True"
            /\ executed_solution' = Append(executed_solution, result.path)
    /\ UNCHANGED <<argv, args, run_count, cycles, clicks, main_pc>>

Next ==
    \/ RunSingleCycleReturn
    \/ IdentifySolverInput
    \/ UpdateBoardState
    \/ SolveBegin
    \/ LoopHead
    \/ Discard
    \/ ReturnSolution
    \/ Expand
    \/ Exhausted

Spec == Init /\ [][Next]_vars

\* some statement of the cycle is left to run: ENABLED <<Next>>_vars, read
\* off the guards of the actions
Running ==
    \/ pc = "idle" /\ last_op = "__init__" /\ identified_elements = <<>>
    \/ pc = "idle" /\ last_op = "__init__" /\ identified_elements # <<>>
           /\ DOMAIN identified_elements = DOMAIN hex_states
    \/ pc = "idle" /\ last_op = "update_board_state"
    \/ pc = "loop" /\ (open_set = <<>> \/ iteration < MaxIteration)
    \/ pc = "pop"
    \/ pc = "done" /\ ending # "raised" /\ success = "none"

\* the interpreter always goes on to the next statement: weak fairness of
\* Next, WF_vars(Next), with ENABLED <<Next>>_vars written out as Running
FairSpec == Init /\ [][Next]_vars /\ ([]<>(~Running) \/ []<><<Next>>_vars)

\* a solver whose interrupt configuration is any of TestConfigs
InterruptInit ==
    /\ hex_states = ConstructedStates
    /\ identified_elements = <<>>
    /\ last_op = "__init__"
    /\ h_weights = DefaultWeights
    /\ interrupt_config \in TestConfigs
    /\ SolverIdle

\* self._check_interrupt(iteration, len(open_set), best_g_cost, elapsed_time)
CheckInterrupt ==
    /\ \E v \in MetricChoices :
          /\ check_values' = v
          /\ check_outcome' =
                IF _check_interrupt_raises(interrupt_config, v.iteration,
                        v.open_set_size, v.best_g_cost, v.elapsed_time)
                THEN "raised"
                ELSE IF _check_interrupt(interrupt_config, v.iteration,
                        v.open_set_size, v.best_g_cost, v.elapsed_time)
                THEN "True" ELSE "False"
    /\ UNCHANGED <<boardVars, solverVars, objVars, ctorVars, sinkVars, mainVars, simVars>>

InterruptNext == CheckInterrupt

InterruptSpec == InterruptInit /\ [][InterruptNext]_vars

\* the record of a GameBoard call
Call(op, b, arg, outcome) == [op |-> op, board |-> b, arg |-> arg, outcome |-> outcome]

\* the list of board b
ListOf(b) == lists[boards[b].hex_states]

\* GameBoard(gm)
ObjConstruct ==
    /\ calls < MaxCalls
    /\ Len(boards) < MaxBoards
    /\ dicts' = Append(dicts, UnknownCell)
    /\ lists' = Append(lists, [k \in 1..NumCells |-> Len(dicts) + 1])
    /\ boards' = Append(boards, [hex_states |-> Len(lists) + 1, _hash |-> NoHash])
    /\ last_call' = Call("__init__", Len(boards) + 1, <<>>, "ok")
    /\ calls' = calls + 1
    /\ UNCHANGED <<boardVars, solverVars, checkVars, ctorVars, sinkVars, mainVars, simVars>>

\* board.update_board_state(identified_elements) on a list of fresh dicts;
\* a list that passes the length test but has not one entry per cell makes
\* _update_unlock_status raise IndexError
ObjUpdateBoardState ==
    /\ calls < MaxCalls
    /\ \E b \in 1..Len(boards), identified \in ObjInputs :
          IF LengthMismatch(identified, ListOf(b))
          THEN /\ last_call' = Call("update_board_state", b, identified, "ValueError")
               /\ UNCHANGED <<dicts, lists, boards>>
          ELSE LET l == [k \in 1..Len(identified) |-> Len(dicts) + k]
               IN  /\ lists' = Append(lists, l)
                   /\ boards' = [boards EXCEPT ![b].hex_states = Len(lists) + 1]
                   /\ IF Len(identified) = NumCells
                      THEN /\ dicts' = update_unlock_in_place(dicts \o identified, l)
                           /\ last_call' = Call("update_board_state", b, identified, "ok")
                      ELSE /\ dicts' = dicts \o identified
                           /\ last_call' = Call("update_board_state", b, identified,
                                                "IndexError")
    /\ calls' = calls + 1
    /\ UNCHANGED <<boardVars, solverVars, checkVars, ctorVars, sinkVars, mainVars, simVars>>

\* new_board = board.apply_move(move); the new board is the last of boards
ObjApplyMove ==
    /\ calls < MaxCalls
    /\ Len(boards) < MaxBoards
    /\ \E b \in 1..Len(boards), move \in ObjMoves :
          /\ Len(ListOf(b)) = NumCells
          /\ IF ~IndexInRange(move[1]) \/ ~IndexInRange(move[2])
             THEN /\ last_call' = Call("apply_move", b, move, "IndexError")
                  /\ UNCHANGED <<dicts, lists, boards>>
             ELSE LET new_board == deepcopy(dicts, lists, boards[b].hex_states)
                      n == Len(new_board.dicts)
                      hex_states1 == [new_board.lists[new_board.list]
                                         EXCEPT ![ListPosition(move[1])] = n + 1]
                      hex_states2 == [hex_states1
                                         EXCEPT ![ListPosition(move[2])] = n + 2]
                  IN  /\ dicts' = update_unlock_in_place(
                                      new_board.dicts \o <<EmptiedCell, EmptiedCell>>,
                                      hex_states2)
                      /\ lists' = [new_board.lists EXCEPT ![new_board.list] = hex_states2]
                      /\ boards' = Append(boards, [hex_states |-> new_board.list,
                                                   _hash |-> NoHash])
                      /\ last_call' = Call("apply_move", b, move, "ok")
    /\ calls' = calls + 1
    /\ UNCHANGED <<boardVars, solverVars, checkVars, ctorVars, sinkVars, mainVars, simVars>>

\* board.find_possible_moves(): the unlocked flags are rewritten in place
ObjFindPossibleMoves ==
    /\ calls < MaxCalls
    /\ \E b \in 1..Len(boards) :
          /\ Len(ListOf(b)) = NumCells
          /\ dicts' = update_unlock_in_place(dicts, ListOf(b))
          /\ last_call' = Call("find_possible_moves", b, <<>>, "ok")
    /\ calls' = calls + 1
    /\ UNCHANGED <<lists, boards, boardVars, solverVars, checkVars, ctorVars, sinkVars, mainVars, simVars>>

\* hash(board): the cache is filled when it is None
ObjHash ==
    /\ calls < MaxCalls
    /\ \E b \in 1..Len(boards) :
          /\ boards' = IF boards[b]._hash = NoHash
                        THEN [boards EXCEPT ![b]._hash = <<tuple_hash(dicts, ListOf(b))>>]
                        ELSE boards
          /\ last_call' = Call("__hash__", b, <<>>, "ok")
    /\ calls' = calls + 1
    /\ UNCHANGED <<dicts, lists, boardVars, solverVars, checkVars, ctorVars, sinkVars, mainVars, simVars>>

ObjInit ==
    /\ hex_states = ConstructedStates
    /\ identified_elements = <<>>
    /\ last_op = "__init__"
    /\ h_weights = DefaultWeights
    /\ interrupt_config = DisabledInterrupt
    /\ SolverIdle

ObjNext ==
    \/ ObjConstruct
    \/ ObjUpdateBoardState
    \/ ObjApplyMove
    \/ ObjFindPossibleMoves
    \/ ObjHash

ObjSpec == ObjInit /\ [][ObjNext]_vars

----------------------------------------------------------------------------
(* Solver.__init__ and the two configuration files *)

\* what open() and json.load() make of a file: FileNotFoundError,
\* JSONDecodeError, or the parsed value: an object with entries, the
\* object {}, the list [], a number
Absent == [kind |-> "absent"]
Unparsable == [kind |-> "unparsable"]
JObject(v) == [kind |-> "object", value |-> v]
JEmptyObject == [kind |-> "empty_object"]
JList == [kind |-> "list"]
JNumber == [kind |-> "number"]

\* the argument heuristic_weights left at its default
NoArgument == [kind |-> "None"]

WeightNames ==
    {"remaining_elements_factor", "locked_marbles_penalty",
     "salt_marbles_reward", "metal_marbles_penalty"}

\* weights that give only some of the four names
SomeWeights == [salt_marbles_reward |-> 20]
MostWeights ==
    [remaining_elements_factor |-> 10,
     locked_marbles_penalty    |-> 2,
     metal_marbles_penalty     |-> 0]

\* Solver(heuristic_weights=...)
WeightArguments ==
    {NoArgument, JEmptyObject, JObject(SomeWeights), JObject(MostWeights)}
        \cup {JObject(w) : w \in WeightChoices}

\* config/solver_config.json
SolverConfigFiles ==
    {Absent, Unparsable, JEmptyObject, JList, JNumber,
     JObject([visualizer |-> JNumber]),
     JObject([heuristic_weights |-> JEmptyObject]),
     JObject([heuristic_weights |-> JObject(SomeWeights)]),
     JObject([heuristic_weights |-> JObject(MostWeights)]),
     JObject([heuristic_weights |-> JList]),
     JObject([heuristic_weights |-> JNumber])}

\* config/interrupt_config.json
InterruptConfigFiles ==
    {Absent, Unparsable, JList,
     JObject(DisabledInterrupt), JObject(IterationInterrupt(1))}

\* if heuristic_weights: (None and {} are false)
Truthy(arg) == arg.kind = "object"

\* dict.update: the entries of other replace or extend those of d
DictUpdate(d, other) ==
    [k \in DOMAIN d \cup DOMAIN other |-> IF k \in DOMAIN other THEN other[k] ELSE d[k]]

\* config.get('heuristic_weights', {})
GetHeuristicWeights(config) ==
    IF config.kind = "object" /\ "heuristic_weights" \in DOMAIN config.value
    THEN config.value.heuristic_weights
    ELSE JEmptyObject

\* _load_heuristic_weights: the exception it ends with ("ok" when none) and
\* self.h_weights afterwards
_load_heuristic_weights(file) ==
    IF file.kind \in {"absent", "unparsable"}
    THEN [outcome |-> "ok", h_weights |-> DefaultWeights]
    ELSE IF file.kind \in {"list", "number"}
    THEN [outcome |-> "AttributeError", h_weights |-> DefaultWeights]
    ELSE LET update == GetHeuristicWeights(file)
         IN  IF update.kind = "number"
             THEN [outcome |-> "TypeError", h_weights |-> DefaultWeights]
             ELSE IF update.kind = "object"
             THEN [outcome |-> "ok", h_weights |-> DictUpdate(DefaultWeights, update.value)]
             ELSE [outcome |-> "ok", h_weights |-> DefaultWeights]

\* _load_interrupt_config: self.interrupt_config afterwards
_load_interrupt_config(file) ==
    IF file.kind \in {"absent", "unparsable"} THEN DisabledInterrupt
    ELSE IF file.kind = "object" THEN file.value
    ELSE <<>>

\* Solver(heuristic_weights=arg) with the two files as they are
Construct ==
    /\ ctor_outcome = "none"
    /\ \E arg \in WeightArguments, solver_config \in SolverConfigFiles,
          interrupt_file \in InterruptConfigFiles :
          /\ ctor_args' = [heuristic_weights |-> arg,
                           solver_config     |-> solver_config,
                           interrupt_config  |-> interrupt_file]
          /\ interrupt_config' = _load_interrupt_config(interrupt_file)
          /\ IF Truthy(arg)
             THEN /\ h_weights' = arg.value
                  /\ ctor_outcome' = "ok"
             ELSE /\ h_weights' = _load_heuristic_weights(solver_config).h_weights
                  /\ ctor_outcome' = _load_heuristic_weights(solver_config).outcome
    /\ UNCHANGED <<boardVars, open_set, closed_set, iteration, pops, pc, result,
                   ending, expanded, checkVars, objVars, h_outcome, sinkVars, mainVars, simVars>>

\* the boards whose heuristic is computed: two FIRE tokens, and a SALT
\* inside a ring of FIRE
HeuristicBoards ==
    {_update_unlock_status(InputList((PlayCenter :> "FIRE")
                                        @@ (neighbors[PlayCenter][1] :> "FIRE"))),
     _update_unlock_status(InputList(
         [c \in ClusterCells |-> IF c = PlayCenter THEN "SALT" ELSE "FIRE"]))}

\* the heuristic of solve looks up all four weights
HeuristicRaises(w) == ~(WeightNames \subseteq DOMAIN w)

\* Heuristic v2.1 of solve on a board, with the weights of the solver
Heuristic ==
    /\ ctor_outcome = "ok"
    /\ h_outcome = <<>>
    /\ \E board \in HeuristicBoards :
          h_outcome' =
              IF HeuristicRaises(h_weights)
              THEN [board |-> board, raised |-> TRUE, h_cost |-> 0]
              ELSE [board |-> board, raised |-> FALSE,
                    h_cost |-> h_cost(board, h_weights)]
    /\ UNCHANGED <<boardVars, solverVars, checkVars, objVars, ctor_args, ctor_outcome,
                   sinkVars, mainVars, simVars>>

\* no solver yet
ConstructInit ==
    /\ hex_states = ConstructedStates
    /\ identified_elements = <<>>
    /\ last_op = "__init__"
    /\ h_weights = <<>>
    /\ interrupt_config = <<>>
    /\ SolverIdle

ConstructNext ==
    \/ Construct
    \/ Heuristic

ConstructSpec == ConstructInit /\ [][ConstructNext]_vars

----------------------------------------------------------------------------
(* Solver.solve with an overlay manager and a visualizer attached or not *)

\* the four ways to attach the sinks: <<overlay_manager, visualizer>>
SinkChoices == BOOLEAN \X BOOLEAN

max_lines == 10

\* deque(maxlen=max_lines).append
deque_append(messages, message) ==
    IF Len(messages) = max_lines THEN Append(Tail(messages), message)
    ELSE Append(messages, message)

\* OverlayManager.log
log(messages, text) == deque_append(messages, [text |-> text])

\* OverlayManager.update_last_line
update_last_line(messages, message) ==
    IF messages # <<>> THEN [messages EXCEPT ![Len(messages)] = message]
    ELSE Append(messages, message)

\* print(text) and print(f"\r{text}", end=""): a line added to the
\* terminal, and the current line of the terminal written over; print()
\* ends the current line and adds none
print(stdout, text) == Append(stdout, [text |-> text])

print_over(stdout, message) ==
    IF stdout # <<>> THEN [stdout EXCEPT ![Len(stdout)] = message]
    ELSE Append(stdout, message)

\* a progress line that counts the iterations from 0
progress_str_mut(iter, open_set_size, best_g_cost, elapsed_time) ==
    [I |-> iter - 1, Q |-> open_set_size, P |-> best_g_cost, T |-> elapsed_time]

\* progress_str: iteration, queue length, g_cost at the head, elapsed time
progress_str(iter, open_set_size, best_g_cost, elapsed_time) ==
    [I |-> iter, Q |-> open_set_size, P |-> best_g_cost, T |-> elapsed_time]

\* a call that passes the heuristic where g_cost belongs
add_node_mut(node_hash, parent_hash, g, h, is_initial) ==
    [node_hash |-> node_hash, parent_hash |-> parent_hash, g_cost |-> h,
     h_cost |-> h, is_initial |-> is_initial]

\* the arguments of one SolverVisualizer.add_node call; parent_hash is <<>>
\* for None
add_node(node_hash, parent_hash, g, h, is_initial) ==
    [node_hash |-> node_hash, parent_hash |-> parent_hash, g_cost |-> g,
     h_cost |-> h, is_initial |-> is_initial]

\* the hashes of the boards the visualizer gets by applying the moves of
\* the path one after the other, from move k on
RECURSIVE ReplayHashes(_, _, _)
ReplayHashes(board, path, k) ==
    IF k > Len(path) THEN <<>>
    ELSE <<__hash__(apply_move(board, path[k]))>>
            \o ReplayHashes(apply_move(board, path[k]), path, k + 1)

\* a replay that applies each move to initial_board itself
RECURSIVE ReplayInPlace(_, _, _)
ReplayInPlace(board, path, k) ==
    IF k > Len(path) THEN board
    ELSE ReplayInPlace(apply_move(board, path[k]), path, k + 1)

solution_hashes_mut(initial_board, path) ==
    [initial_board |-> ReplayInPlace(initial_board, path, 1),
     hashes |-> <<__hash__(initial_board)>> \o ReplayHashes(initial_board, path, 1)]

\* solution_hashes of solve, and initial_board after computing them:
\* apply_move works on a copy, so initial_board stays as it is
solution_hashes(initial_board, path) ==
    [initial_board |-> initial_board,
     hashes |-> <<__hash__(initial_board)>> \o ReplayHashes(initial_board, path, 1)]

\* solve up to the loop, for one way of attaching the sinks: the overlay
\* holds the line its constructor logged
solve_begin(initial_board, overlay_manager, visualizer) ==
    [open_set   |-> << [f_cost |-> 0, g_cost |-> 0, board |-> initial_board,
                        path |-> <<>>, parent_board |-> <<>>] >>,
     closed_set |-> {},
     iteration  |-> 0,
     pc         |-> "loop",
     result     |-> None,
     ending     |-> "none",
     expanded   |-> <<>>,
     initial_board |-> initial_board,
     messages   |-> IF overlay_manager THEN log(<<>>, "Overlay Initialized.")
                    ELSE <<>>,
     stdout     |-> <<>>,
     checked    |-> <<>>,
     nodes      |-> IF visualizer
                    THEN <<add_node(__hash__(initial_board), <<>>, 0, 0, TRUE)>>
                    ELSE <<>>,
     solution_path_hashes |-> <<>>,
     drawn      |-> FALSE]

\* the statements after the loop
solve_exhausted(r, overlay_manager, visualizer) ==
    [r EXCEPT !.result = NoSolutionFound,
              !.ending = "exhausted",
              !.pc = "done",
              !.messages = IF overlay_manager THEN log(@, "No solution found.")
                           ELSE @,
              !.drawn = visualizer]

\* one iteration of the loop of solve: progress line, interrupt check, pop,
\* closed test, visualizer node, solution test, successors
solve_iteration(r, overlay_manager, visualizer, elapsed_time, w, config) ==
    LET iter == r.iteration + 1
        best_g_cost == r.open_set[1].g_cost
        line == progress_str(iter, Len(r.open_set), best_g_cost, elapsed_time)
        r1 == [r EXCEPT !.iteration = iter,
                        !.messages = IF ~overlay_manager THEN @
                                     ELSE IF iter = 1 THEN deque_append(@, line)
                                     ELSE update_last_line(@, line),
                        !.stdout = IF overlay_manager THEN @
                                   ELSE IF iter = 1 THEN Append(@, line)
                                   ELSE print_over(@, line),
                        !.checked = Metrics(iter, Len(r.open_set), best_g_cost,
                                            elapsed_time)]
        node == heappop_item(r.open_set)
        rest == heappop_rest(r.open_set)
        closed == r.closed_set \cup {node.board}
        visited == IF visualizer /\ ~__eq__(node.board, r.initial_board)
                   THEN Append(r.nodes,
                               add_node(__hash__(node.board),
                                        IF node.parent_board # <<>>
                                        THEN <<__hash__(node.parent_board[1])>>
                                        ELSE <<>>,
                                        node.g_cost, h_cost(node.board, w), FALSE))
                   ELSE r.nodes
        replay == solution_hashes(r.initial_board, node.path)
    IN  IF _check_interrupt_raises(config, iter, Len(r.open_set), best_g_cost,
                                   elapsed_time)
        THEN [r1 EXCEPT !.ending = "raised", !.pc = "done"]
        ELSE IF _check_interrupt(config, iter, Len(r.open_set), best_g_cost,
                                 elapsed_time)
        THEN [r1 EXCEPT !.result = SearchInterrupted,
                        !.ending = "interrupted",
                        !.pc = "done",
                        !.messages =
                            IF overlay_manager
                            THEN log(@, "Solver interrupted by user-defined condition.")
                            ELSE @,
                        !.stdout =
                            IF overlay_manager THEN @
                            ELSE print(@, "Solver interrupted by user-defined condition.")]
        ELSE IF InClosedSet(node.board, r.closed_set)
        THEN [r1 EXCEPT !.open_set = rest]
        ELSE IF is_solved(node.board)
        THEN [r1 EXCEPT !.open_set = rest,
                        !.closed_set = closed,
                        !.expanded = Append(@, node.board),
                        !.nodes = visited,
                        !.messages = IF overlay_manager THEN log(@, "Solution found!")
                                     ELSE @,
                        !.stdout = IF overlay_manager THEN @
                                   ELSE print(@, "DEBUG: Solution found!"),
                        !.solution_path_hashes = IF visualizer THEN replay.hashes ELSE @,
                        !.initial_board = IF visualizer THEN replay.initial_board ELSE @,
                        !.drawn = visualizer,
                        !.result = PathResult(node.path),
                        !.ending = "solved",
                        !.pc = "done"]
        ELSE [r1 EXCEPT !.open_set = PushSuccessors(rest, node, closed, w),
                        !.closed_set = closed,
                        !.expanded = Append(@, node.board),
                        !.nodes = visited]

\* time.time() - start_time of a run: the calls of attached sinks take time
SinkElapsed(elapsed_time, s) ==
    elapsed_time + (IF s[1] THEN 1 ELSE 0) + (IF s[2] THEN 1 ELSE 0)

\* the solvers whose runs are compared: no condition on elapsed_time
SinkConfigs ==
    (WeightChoices \X {DisabledInterrupt})
        \cup ({DefaultWeights} \X {IterationInterrupt(3), IterationInterrupt(MaxK + 1)})

\* three pairs of basic tokens on the ring around the centre of the cluster
ThreePairs ==
    [c \in ClusterCells \ {PlayCenter} |->
        IF c \in {neighbors[PlayCenter][1], neighbors[PlayCenter][2]} THEN "FIRE"
        ELSE IF c \in {neighbors[PlayCenter][3], neighbors[PlayCenter][4]} THEN "WATER"
        ELSE "EARTH"]

\* the boards of these runs: FIRE and SALT tokens on any of PlayCells, a
\* single GOLD token, and the three pairs
SinkInputs ==
    {InputList(f) : f \in UNION {[S -> {"FIRE", "SALT"}] : S \in SUBSET PlayCells}}
        \cup {InputList(PlayCenter :> "GOLD"), InputList(ThreePairs)}

\* four solvers that differ in their sinks only, each about to solve a board
\* of its own with the same cells
SinkInit ==
    /\ \E identified \in SinkInputs :
          /\ identified_elements = identified
          /\ hex_states = _update_unlock_status(identified)
    /\ last_op = "update_board_state"
    /\ \E config \in SinkConfigs :
          /\ h_weights = config[1]
          /\ interrupt_config = config[2]
    /\ SolverIdle

\* each of the four solvers enters solve
SinkSolveBegin ==
    /\ runs = <<>>
    /\ runs' = [s \in SinkChoices |-> solve_begin(hex_states, s[1], s[2])]
    /\ UNCHANGED <<boardVars, solverVars, checkVars, objVars, ctorVars, mainVars, simVars>>

\* each of the four solvers that is in the loop makes one iteration, or
\* leaves the loop
SinkIteration ==
    /\ runs # <<>>
    /\ \E s \in SinkChoices : runs[s].pc = "loop"
    /\ \A s \in SinkChoices : runs[s].iteration < MaxIteration
    /\ \E elapsed_time \in ElapsedTimes :
          runs' = [s \in SinkChoices |->
                      IF runs[s].pc # "loop" THEN runs[s]
                      ELSE IF runs[s].open_set = <<>>
                      THEN solve_exhausted(runs[s], s[1], s[2])
                      ELSE solve_iteration(runs[s], s[1], s[2],
                                           SinkElapsed(elapsed_time, s),
                                           h_weights, interrupt_config)]
    /\ UNCHANGED <<boardVars, solverVars, checkVars, objVars, ctorVars, mainVars, simVars>>

SinkNext ==
    \/ SinkSolveBegin
    \/ SinkIteration

SinkSpec == SinkInit /\ [][SinkNext]_vars

----------------------------------------------------------------------------
(* tools/puzzle_recorder.py: PuzzleSimulator and the solver thread of      *)
(* PuzzleReplayGUI.  A hex_states list is an entry of hex_lists and is     *)
(* referred to by its position; after load_board_state every cell dict     *)
(* belongs to one list only (deepcopy, fresh dicts for emptied cells), so  *)
(* a list is kept with its cells by value.  The hint facility              *)
(* (show_next_move_hint) is left out: hinted_move stays None.              *)

MaxEvents == 5

\* PuzzleSimulator._is_metal_unlocked
_is_metal_unlocked(hs, metal_element) ==
    IF metal_element \notin metals THEN TRUE
    ELSE LET metal_index == CHOOSE k \in 1..Len(metal_transmutation_order) :
                                metal_transmutation_order[k] = metal_element
         IN  \A k \in 1..(metal_index - 1) :
                 \A i \in Cells : hs[i].element # metal_transmutation_order[k]

\* PuzzleSimulator._update_unlock_status
PuzzleSimulator_update_unlock_status(hs) ==
    [i \in Cells |->
        [element  |-> hs[i].element,
         state    |-> hs[i].state,
         unlocked |-> IF hs[i].element \in Sentinels THEN TRUE
                      ELSE IF hs[i].element \in metals /\ is_unlocked(hs, i)
                      THEN _is_metal_unlocked(hs, hs[i].element)
                      ELSE is_unlocked(hs, i)]]

\* the dict the simulator writes into an emptied cell
SimEmptyCell == [element |-> "EMPTY", state |-> "normal"]

\* hex_states of the simulator after the cells of S were emptied and
\* _update_unlock_status ran
Emptied(hs, S) ==
    PuzzleSimulator_update_unlock_status(
        [i \in Cells |-> IF i \in S THEN SimEmptyCell ELSE hs[i]])

\* PuzzleSimulator.attempt_move: the value returned
attempt_move(hs, idx1, idx2) ==
    /\ GetUnlocked(hs[idx1]) /\ GetUnlocked(hs[idx2])
    /\ _is_valid_match(hs, idx1, idx2)

\* PuzzleSimulator.eliminate_single_element: the value returned
eliminate_single_element(hs, idx) == GetUnlocked(hs[idx])

\* what grid_manager.find_closest_hex may return to on_canvas_click: <<>>
\* for None, <<i>> for the index of a cell
find_closest_hex == {<<>>} \cup {<<i>> : i \in ClusterCells}

\* the recordings that can be loaded: LEAD, GOLD, QUICKSILVER and two FIRE
\* on the ring around the centre; a SALT inside a ring of FIRE; a single GOLD
SimBoards ==
    {InputList((neighbors[PlayCenter][1] :> "LEAD")
                   @@ (neighbors[PlayCenter][2] :> "GOLD")
                   @@ (neighbors[PlayCenter][3] :> "QUICKSILVER")
                   @@ (neighbors[PlayCenter][4] :> "FIRE")
                   @@ (neighbors[PlayCenter][5] :> "FIRE")),
     InputList([c \in ClusterCells |-> IF c = PlayCenter THEN "SALT" ELSE "FIRE"]),
     InputList(PlayCenter :> "GOLD")}

\* the cells of the simulator
SimCells == hex_lists[simulator.hex_states]

\* the record of a simulator or GUI call: before holds the simulator's cells
\* at the call
SimCall(op, arg, outcome) ==
    [n |-> sim_call.n + 1, op |-> op, arg |-> arg, outcome |-> outcome,
     before |-> SimCells]

\* PuzzleReplayGUI(master): an unloaded simulator, Solve and Undo disabled
SimInit ==
    /\ hex_states = ConstructedStates
    /\ identified_elements = <<>>
    /\ last_op = "__init__"
    /\ h_weights = DefaultWeights
    /\ interrupt_config = DisabledInterrupt
    /\ SearchIdle
    /\ MainIdle
    /\ hex_lists = <<ConstructedStates>>
    /\ simulator = [hex_states |-> 1, move_history |-> <<>>]
    /\ sim_call = [n |-> 0, op |-> "__init__", arg |-> <<>>, outcome |-> "ok",
                   before |-> ConstructedStates]
    /\ gui = [selected_hex_index |-> <<>>, solve_button |-> "disabled",
              load_button |-> "normal", undo_button |-> "disabled",
              solving_thread |-> 0, result_queue |-> <<>>, polls |-> 0]
    /\ threads = <<>>

\* load_puzzle_from_path: load_board_state deep-copies the recording
LoadPuzzle ==
    /\ sim_call.n < MaxEvents
    /\ gui.load_button = "normal"
    /\ \E board_state \in SimBoards :
          /\ hex_lists' = Append(hex_lists,
                                 PuzzleSimulator_update_unlock_status(board_state))
          /\ sim_call' = SimCall("load_board_state", board_state, "ok")
    /\ simulator' = [hex_states |-> Len(hex_lists) + 1, move_history |-> <<>>]
    /\ gui' = [gui EXCEPT !.undo_button = "disabled", !.solve_button = "normal",
                          !.selected_hex_index = <<>>]
    /\ UNCHANGED <<threads, boardVars, solverVars, checkVars, objVars, ctorVars,
                   sinkVars, mainVars>>

\* the simulator after a move that emptied the cells of S: the old cells go
\* to move_history as a copy, the list itself is changed in place
SimMoved(S) ==
    /\ hex_lists' = Append([hex_lists EXCEPT ![simulator.hex_states] =
                                Emptied(SimCells, S)],
                           SimCells)
    /\ simulator' = [simulator EXCEPT !.move_history =
                                Append(@, Len(hex_lists) + 1)]

\* on_canvas_click
OnCanvasClick ==
    /\ sim_call.n < MaxEvents
    /\ \E clicked \in find_closest_hex :
          LET clicked_index == clicked[1]
              selected == gui.selected_hex_index
          IN  IF clicked = <<>> \/ SimCells[clicked_index].element = "EMPTY"
              THEN /\ gui' = [gui EXCEPT !.selected_hex_index = <<>>]
                   /\ sim_call' = SimCall("on_canvas_click", clicked, "deselected")
                   /\ UNCHANGED <<hex_lists, simulator>>
              ELSE IF ~GetUnlocked(SimCells[clicked_index])
              THEN /\ sim_call' = SimCall("on_canvas_click", clicked, "locked")
                   /\ UNCHANGED <<hex_lists, simulator, gui>>
              ELSE IF SimCells[clicked_index].element = "GOLD"
              THEN IF eliminate_single_element(SimCells, clicked_index)
                   THEN /\ SimMoved({clicked_index})
                        /\ gui' = [gui EXCEPT !.undo_button = "normal",
                                              !.selected_hex_index = <<>>]
                        /\ sim_call' = SimCall("eliminate_single_element",
                                               clicked_index, "True")
                   ELSE /\ gui' = [gui EXCEPT !.selected_hex_index = <<>>]
                        /\ sim_call' = SimCall("eliminate_single_element",
                                               clicked_index, "False")
                        /\ UNCHANGED <<hex_lists, simulator>>
              ELSE IF selected = <<>>
              THEN /\ gui' = [gui EXCEPT !.selected_hex_index = clicked]
                   /\ sim_call' = SimCall("on_canvas_click", clicked, "selected")
                   /\ UNCHANGED <<hex_lists, simulator>>
              ELSE IF selected = clicked
              THEN /\ gui' = [gui EXCEPT !.selected_hex_index = <<>>]
                   /\ sim_call' = SimCall("on_canvas_click", clicked, "deselected")
                   /\ UNCHANGED <<hex_lists, simulator>>
              ELSE IF attempt_move(SimCells, selected[1], clicked_index)
              THEN /\ SimMoved({selected[1], clicked_index})
                   /\ gui' = [gui EXCEPT !.undo_button = "normal",
                                         !.selected_hex_index = <<>>]
                   /\ sim_call' = SimCall("attempt_move",
                                          <<selected[1], clicked_index>>, "True")
              ELSE /\ gui' = [gui EXCEPT !.selected_hex_index = <<>>]
                   /\ sim_call' = SimCall("attempt_move",
                                          <<selected[1], clicked_index>>, "False")
                   /\ UNCHANGED <<hex_lists, simulator>>
    /\ UNCHANGED <<threads, boardVars, solverVars, checkVars, objVars, ctorVars,
                   sinkVars, mainVars>>

\* undo_move of the GUI: the simulator goes back to the last copy
UndoMove ==
    /\ sim_call.n < MaxEvents
    /\ gui.undo_button = "normal"
    /\ IF simulator.move_history = <<>>
       THEN /\ sim_call' = SimCall("undo_move", <<>>, "False")
            /\ UNCHANGED <<simulator, gui>>
       ELSE LET rest == SubSeq(simulator.move_history, 1,
                               Len(simulator.move_history) - 1)
            IN  /\ simulator' =
                       [hex_states |-> simulator.move_history[
                                           Len(simulator.move_history)],
                        move_history |-> rest]
                /\ gui' = [gui EXCEPT !.solve_button = "normal",
                                      !.undo_button = IF rest = <<>> THEN "disabled"
                                                      ELSE "normal"]
                /\ sim_call' = SimCall("undo_move", <<>>, "True")
    /\ UNCHANGED <<hex_lists, threads, boardVars, solverVars, checkVars, objVars,
                   ctorVars, sinkVars, mainVars>>

\* solve_puzzle: nothing when a thread is alive; otherwise the board of
\* get_current_game_board, whose update_board_state keeps the simulator's
\* list and rewrites the unlocked flags in it, goes to a new thread
SolvePuzzle ==
    /\ sim_call.n < MaxEvents
    /\ gui.solve_button = "normal"
    /\ IF gui.solving_thread # 0 /\ threads[gui.solving_thread].alive
       THEN /\ sim_call' = SimCall("solve_puzzle", <<>>, "already running")
            /\ UNCHANGED <<hex_lists, gui, threads>>
       ELSE /\ hex_lists' = [hex_lists EXCEPT ![simulator.hex_states] =
                                 _update_unlock_status(@)]
            /\ threads' = Append(threads,
                                 [alive |-> TRUE, pc |-> "start",
                                  board |-> simulator.hex_states,
                                  at_call |-> SimCells, searched |-> <<>>])
            /\ gui' = [gui EXCEPT !.solve_button = "disabled",
                                  !.load_button = "disabled",
                                  !.undo_button = "disabled",
                                  !.solving_thread = Len(threads) + 1,
                                  !.polls = @ + 1]
            /\ sim_call' = SimCall("get_current_game_board", <<>>, "ok")
    /\ UNCHANGED <<simulator, boardVars, solverVars, checkVars, objVars, ctorVars,
                   sinkVars, mainVars>>

\* _solve_worker, iteration 1 of solve up to the solved test: the initial
\* board is popped, hashed and tested
WorkerPop ==
    /\ \E t \in 1..Len(threads) :
          /\ threads[t].pc = "start"
          /\ threads' = [threads EXCEPT
                 ![t].pc = IF is_solved(hex_lists[threads[t].board]) THEN "found"
                           ELSE "popped",
                 ![t].searched = IF is_solved(hex_lists[threads[t].board])
                                 THEN hex_lists[threads[t].board] ELSE @]
    /\ UNCHANGED <<hex_lists, simulator, sim_call, gui, boardVars, solverVars,
                   checkVars, objVars, ctorVars, sinkVars, mainVars>>

\* _solve_worker, the rest of iteration 1: find_possible_moves rewrites the
\* unlocked flags of the initial board in place, the successors are copies
WorkerExpand ==
    /\ \E t \in 1..Len(threads) :
          /\ threads[t].pc = "popped"
          /\ hex_lists' = [hex_lists EXCEPT ![threads[t].board] =
                               _update_unlock_status(@)]
          /\ threads' = [threads EXCEPT
                 ![t].pc = "searching",
                 ![t].searched = _update_unlock_status(hex_lists[threads[t].board])]
    /\ UNCHANGED <<simulator, sim_call, gui, boardVars, solverVars, checkVars,
                   objVars, ctorVars, sinkVars, mainVars>>

\* _solve_worker: solve returns (the later iterations work on copies) and
\* the result is put into result_queue
WorkerPut ==
    /\ \E t \in 1..Len(threads) :
          /\ threads[t].pc \in {"found", "searching"}
          /\ threads' = [threads EXCEPT ![t].pc = "put"]
          /\ gui' = [gui EXCEPT !.result_queue = Append(@, t)]
    /\ UNCHANGED <<hex_lists, simulator, sim_call, boardVars, solverVars,
                   checkVars, objVars, ctorVars, sinkVars, mainVars>>

\* the thread ends
WorkerExit ==
    /\ \E t \in 1..Len(threads) :
          /\ threads[t].pc = "put"
          /\ threads' = [threads EXCEPT ![t].pc = "dead", ![t].alive = FALSE]
    /\ UNCHANGED <<hex_lists, simulator, sim_call, gui, boardVars, solverVars,
                   checkVars, objVars, ctorVars, sinkVars, mainVars>>

\* _check_solve_result finds a result in the queue
CheckSolveResult ==
    /\ gui.polls > 0
    /\ gui.result_queue # <<>>
    /\ gui' = [gui EXCEPT !.result_queue = Tail(@),
                          !.polls = @ - 1,
                          !.solve_button = "normal",
                          !.load_button = "normal",
                          !.undo_button = IF simulator.move_history # <<>>
                                          THEN "normal" ELSE "disabled"]
    /\ UNCHANGED <<hex_lists, simulator, sim_call, threads, boardVars, solverVars,
                   checkVars, objVars, ctorVars, sinkVars, mainVars>>

SimNext ==
    \/ LoadPuzzle
    \/ OnCanvasClick
    \/ UndoMove
    \/ SolvePuzzle
    \/ WorkerPop
    \/ WorkerExpand
    \/ WorkerPut
    \/ WorkerExit
    \/ CheckSolveResult

SimSpec == SimInit /\ [][SimNext]_vars

----------------------------------------------------------------------------
(* main.py: the argument handling of __main__ and the loop of main *)

MaxRuns == 3

\* the command lines: no '-c', '-c' alone, '-c N'
MainArgv ==
    {[flag |-> FALSE, value |-> <<>>], [flag |-> TRUE, value |-> <<>>]}
        \cup {[flag |-> TRUE, value |-> <<n>>] : n \in 0..MaxRuns}

\* parser.parse_args().continuous: default 1, const -1, or int(N)
parse_args(line) ==
    IF ~line.flag THEN 1
    ELSE IF line.value = <<>> THEN -1
    ELSE line.value[1]

\* the RunArgs object: runs is <<>> for None
RunArgs(continuous) ==
    [continuous |-> continuous # 1,
     runs |-> IF continuous # 1 THEN <<continuous>> ELSE <<>>]

\* a test that lets one more run through
LoopCondition_mut(a, count) ==
    a.continuous /\ (a.runs[1] = -1 \/ count <= a.runs[1])

\* args.continuous and (args.runs == -1 or run_count < args.runs)
LoopCondition(a, count) ==
    a.continuous /\ (a.runs[1] = -1 \/ count < a.runs[1])

\* main(RunArgs()) is about to run
MainInit ==
    /\ hex_states = ConstructedStates
    /\ identified_elements = <<>>
    /\ last_op = "__init__"
    /\ h_weights = DefaultWeights
    /\ interrupt_config = DisabledInterrupt
    /\ SearchIdle
    /\ SimIdle
    /\ argv \in MainArgv
    /\ args = RunArgs(parse_args(argv))
    /\ run_count = 0
    /\ cycles = <<>>
    /\ clicks = 0
    /\ main_pc = "start"
    /\ success = "none"
    /\ executed_solution = <<>>

\* Step 1 of main: the managers, the solver and the button position; an
\* exception goes to the except clause
MainInitialize ==
    /\ main_pc = "start"
    /\ main_pc' \in {"loop", "error"}
    /\ UNCHANGED <<argv, args, run_count, cycles, clicks, success,
                   executed_solution, boardVars, solverVars, checkVars,
                   objVars, ctorVars, sinkVars, simVars>>

\* the test of the while loop; a loop that never ends is followed for
\* MaxRuns + 1 runs
LoopTest ==
    /\ main_pc = "loop"
    /\ run_count <= MaxRuns
    /\ main_pc' = IF LoopCondition(args, run_count) THEN "cycle" ELSE "after_loop"
    /\ UNCHANGED <<argv, args, run_count, cycles, clicks, success,
                   executed_solution, boardVars, solverVars, checkVars,
                   objVars, ctorVars, sinkVars, simVars>>

\* run_single_cycle inside the loop returns True or False, or raises;
\* run_count += 1
RunCycle ==
    /\ main_pc = "cycle"
    /\ \E outcome \in {"True", "False", "raised"} :
          IF outcome = "raised"
          THEN /\ main_pc' = "error"
               /\ UNCHANGED <<cycles, run_count>>
          ELSE /\ cycles' = Append(cycles, outcome)
               /\ run_count' = run_count + 1
               /\ main_pc' = "cycled"
    /\ UNCHANGED <<argv, args, clicks, success, executed_solution, boardVars,
                   solverVars, checkVars, objVars, ctorVars, sinkVars, simVars>>

\* after the cycle: the click on 'Start New Game' (which may raise) and the
\* wait, or the log line of the last run
AfterCycle ==
    /\ main_pc = "cycled"
    /\ IF args.runs[1] = -1 \/ run_count < args.runs[1]
       THEN \/ /\ clicks' = clicks + 1
               /\ main_pc' = "loop"
            \/ /\ main_pc' = "error"
               /\ UNCHANGED clicks
       ELSE /\ main_pc' = "loop"
            /\ UNCHANGED clicks
    /\ UNCHANGED <<argv, args, run_count, cycles, success, executed_solution,
                   boardVars, solverVars, checkVars, objVars, ctorVars, sinkVars,
                   simVars>>

\* after the loop: one cycle when not args.continuous; then the finally clause
AfterLoop ==
    /\ main_pc = "after_loop"
    /\ IF ~args.continuous
       THEN \E outcome \in {"True", "False", "raised"} :
                IF outcome = "raised"
                THEN /\ main_pc' = "error"
                     /\ UNCHANGED cycles
                ELSE /\ cycles' = Append(cycles, outcome)
                     /\ main_pc' = "finished"
       ELSE /\ main_pc' = "finished"
            /\ UNCHANGED cycles
    /\ UNCHANGED <<argv, args, run_count, clicks, success, executed_solution,
                   boardVars, solverVars, checkVars, objVars, ctorVars, sinkVars,
                   simVars>>

MainNext ==
    \/ MainInitialize
    \/ LoopTest
    \/ RunCycle
    \/ AfterCycle
    \/ AfterLoop

MainSpec == MainInit /\ [][MainNext]_vars

BoardNext ==
    \/ IdentifyBoardInput
    \/ UpdateBoardState
    \/ ApplyMove

BoardSpec == BoardInit /\ [][BoardNext]_vars

----------------------------------------------------------------------------
(* Properties *)

Token(hs, i) == hs[i].element \notin Sentinels

\* the board reached by applying the moves of a path in order
RECURSIVE Replay(_, _)
Replay(hs, path) ==
    IF path = <<>> THEN hs ELSE Replay(apply_move(hs, Head(path)), Tail(path))

\* every move of the path is one find_possible_moves reports for the board
\* it is applied to
RECURSIVE ReplayLegal(_, _)
ReplayLegal(hs, path) ==
    \/ path = <<>>
    \/ /\ LET possible_moves == find_possible_moves(hs)
          IN  \E k \in 1..Len(possible_moves) : possible_moves[k] = Head(path)
       /\ ReplayLegal(apply_move(hs, Head(path)), Tail(path))

\* some sequence of legal moves takes the board to a solved board
RECURSIVE Solvable(_)
Solvable(hs) ==
    \/ is_solved(hs)
    \/ LET possible_moves == find_possible_moves(hs)
       IN  \E k \in 1..Len(possible_moves) :
               Solvable(apply_move(hs, possible_moves[k]))

\* C1: a path returned by solve replays legally, move by move, from the
\* initial board, and the board after its last move is solved.
C1_Soundness ==
    (pc = "done" /\ ~result.none) =>
        /\ ReplayLegal(hex_states, result.path)
        /\ is_solved(Replay(hex_states, result.path))

\* a two-move solution whose second move needs the first: a token of the
\* initial board is locked
C1_Witness ==
    /\ pc = "done"
    /\ ~result.none
    /\ Len(result.path) = 2
    /\ \E i \in Cells : Token(hex_states, i) /\ ~hex_states[i].unlocked

\* C2: with the interrupt disabled, solve never returns the no-solution
\* result for a board from which legal moves reach a solved board.
C2_Completeness ==
    (pc = "done" /\ ~Enabled(interrupt_config) /\ Solvable(hex_states)) =>
        ~result.none

\* a solved run on a board that also has a legal first move into a dead end,
\* under weights other than the defaults
C2_Witness ==
    /\ pc = "done"
    /\ ~Enabled(interrupt_config)
    /\ h_weights # DefaultWeights
    /\ ~result.none
    /\ LET possible_moves == find_possible_moves(hex_states)
       IN  \E k \in 1..Len(possible_moves) :
               ~Solvable(apply_move(hex_states, possible_moves[k]))

\* C3: with the interrupt disabled, every run of solve reaches one of its
\* return statements.
C3_Termination ==
    (~Enabled(interrupt_config)) => <>(pc = "done")

\* a run that ended by exhausting the frontier after several iterations
C3_Witness ==
    /\ pc = "done"
    /\ ~Enabled(interrupt_config)
    /\ ending = "exhausted"
    /\ iteration >= 3

\* C4: a run ended by the interrupt hands back a result different from the
\* one a run ended by exhaustion hands back.
C4_DistinctOutcomes ==
    (pc = "done" /\ ending = "interrupted") => result # NoSolutionFound

\* C5: under the tree AND [iteration >= k] a search is never interrupted
\* before iteration k, and one that reaches iteration k is interrupted there,
\* after k-1 pops and before the k-th.
C5_InterruptDeterminism ==
    \A k \in 1..MaxK :
        interrupt_config = IterationInterrupt(k) =>
            /\ ending = "interrupted" => (iteration = k /\ pops = k - 1)
            /\ iteration >= k => (pc = "done" /\ ending = "interrupted")
            /\ pops <= k - 1

\* a search interrupted at iteration 5
C5_Witness ==
    /\ interrupt_config = IterationInterrupt(5)
    /\ ending = "interrupted"
    /\ iteration = 5
    /\ pops = 4

\* three circularly consecutive neighbour slots of cell i, starting at slot
\* s + 1, are off-grid or EMPTY
EmptyRun(hs, i, s) ==
    \A t \in 0..2 :
        \/ neighbors[i][((s + t) % 6) + 1] = -1
        \/ hs[neighbors[i][((s + t) % 6) + 1]].element = "EMPTY"

\* C6: in a board produced by update_board_state or apply_move a token cell
\* is flagged unlocked iff some run of three circularly consecutive
\* neighbour slots is off-grid or EMPTY, and every other cell is flagged
\* unlocked.
C6_UnlockInvariant ==
    last_op # "__init__" =>
        \A i \in Cells :
            hex_states[i].unlocked =
                (Token(hex_states, i) => \E s \in 0..5 : EmptyRun(hex_states, i, s))

\* a token unlocked by a wrap-around run only, with an UNKNOWN neighbour,
\* on a board produced by apply_move
C6_Witness ==
    /\ last_op = "apply_move"
    /\ \E i \in Cells :
          /\ Token(hex_states, i)
          /\ hex_states[i].unlocked
          /\ \A s \in 0..3 : ~EmptyRun(hex_states, i, s)
          /\ \E d \in 1..6 : /\ neighbors[i][d] # -1
                             /\ hex_states[neighbors[i][d]].element = "UNKNOWN"

\* rank of a metal in LEAD < TIN < IRON < COPPER < SILVER < GOLD
Rank(e) == CHOOSE k \in 1..Len(metal_transmutation_order) :
                metal_transmutation_order[k] = e

\* e is a metal and no metal of lower rank is on the board
LowestPresent(hs, e) ==
    /\ e \in metals
    /\ \A c \in Cells : hs[c].element \in metals => Rank(e) <= Rank(hs[c].element)

\* the match rule (a)-(d)
MatchRule(hs, a, b) ==
    \/ a \in basic_elements /\ a = b
    \/ a = "SALT" /\ b \in basic_elements \cup {"SALT"}
    \/ b = "SALT" /\ a \in basic_elements \cup {"SALT"}
    \/ {a, b} = {"VITAE", "MORS"}
    \/ a = "QUICKSILVER" /\ LowestPresent(hs, b)
    \/ b = "QUICKSILVER" /\ LowestPresent(hs, a)

\* C7: _is_valid_match accepts exactly the pairs of the match rule: same
\* basic element, SALT with SALT or a basic element, VITAE with MORS,
\* QUICKSILVER with the lowest metal present.
C7_MatchRuleExact ==
    last_op # "__init__" =>
        \A i \in Cells, j \in Cells :
            _is_valid_match(hex_states, i, j)
                = MatchRule(hex_states, hex_states[i].element, hex_states[j].element)

\* a board with VITAE next to VITAE (rejected) and QUICKSILVER (accepted
\* with nothing)
C7_Witness ==
    /\ last_op = "update_board_state"
    /\ \E i \in Cells, j \in Cells :
          /\ i # j
          /\ hex_states[i].element = "VITAE"
          /\ hex_states[j].element = "VITAE"
          /\ ~_is_valid_match(hex_states, i, j)
    /\ \E i \in Cells : hex_states[i].element = "QUICKSILVER"

\* C8: QUICKSILVER pairs with a metal cell iff that metal has the least
\* rank among the metals of all cells, locked ones included; with LEAD and
\* IRON present it pairs with LEAD and not IRON, and without LEAD it pairs
\* with IRON iff there is no TIN.
C8_MetalGating ==
    last_op # "__init__" =>
        \A i \in Cells, j \in Cells :
            (hex_states[i].element = "QUICKSILVER" /\ hex_states[j].element \in metals) =>
                LET present == {hex_states[c].element : c \in Cells} \cap metals
                IN  /\ _is_valid_match(hex_states, i, j)
                        = (\A m \in present : Rank(hex_states[j].element) <= Rank(m))
                    /\ ({"LEAD", "IRON"} \subseteq present /\ hex_states[j].element = "IRON")
                        => ~_is_valid_match(hex_states, i, j)
                    /\ ({"LEAD", "IRON"} \subseteq present /\ hex_states[j].element = "LEAD")
                        => _is_valid_match(hex_states, i, j)
                    /\ ("LEAD" \notin present /\ hex_states[j].element = "IRON")
                        => (_is_valid_match(hex_states, i, j) = ("TIN" \notin present))

\* QUICKSILVER and IRON unlocked, the only LEAD locked: the pair is refused
C8_Witness ==
    /\ last_op = "update_board_state"
    /\ \E i \in Cells, j \in Cells, l \in Cells :
          /\ hex_states[i].element = "QUICKSILVER" /\ hex_states[i].unlocked
          /\ hex_states[j].element = "IRON" /\ hex_states[j].unlocked
          /\ hex_states[l].element = "LEAD" /\ ~hex_states[l].unlocked
          /\ ~_is_valid_match(hex_states, i, j)

\* C9: _is_valid_match gives the same answer for (i, j) and (j, i).
C9_MatchSymmetry ==
    last_op # "__init__" =>
        \A i \in Cells, j \in Cells :
            _is_valid_match(hex_states, i, j) = _is_valid_match(hex_states, j, i)

\* a basic element at the lower index and SALT at the higher one, accepted
\* in both orders
C9_Witness ==
    /\ last_op = "update_board_state"
    /\ \E i \in Cells, j \in Cells :
          /\ i < j
          /\ hex_states[i].element = "WATER"
          /\ hex_states[j].element = "SALT"
          /\ _is_valid_match(hex_states, i, j)
          /\ _is_valid_match(hex_states, j, i)

\* C10: is_solved holds iff no token is left or exactly one token is left
\* and it is GOLD.
C10_TerminalRule ==
    last_op # "__init__" =>
        (is_solved(hex_states) =
            (\/ \A i \in Cells : ~Token(hex_states, i)
             \/ \E i \in Cells :
                   /\ hex_states[i].element = "GOLD"
                   /\ \A j \in Cells \ {i} : ~Token(hex_states, j)))

\* a board left with a single SILVER by a move: not solved
C10_Witness ==
    /\ last_op = "apply_move"
    /\ \E i \in Cells :
          /\ hex_states[i].element = "SILVER"
          /\ \A j \in Cells \ {i} : ~Token(hex_states, j)
    /\ ~is_solved(hex_states)

\* C11: apply_move leaves every board that existed before the call as it
\* was (the same list, the same cached hash, the same classifications and
\* unlocked flags at every index), whether it returns or raises; when it
\* returns for a move (i, j) of cell indices, the new board has EMPTY at i
\* and j, the classification of the original everywhere else, and the
\* unlocked flags _update_unlock_status computes for the new board.
C11_ApplyMoveFrame ==
    [][(last_call'.op = "apply_move" /\ calls' = calls + 1) =>
          /\ \A b \in 1..Len(boards) :
                /\ boards'[b] = boards[b]
                /\ ListView(dicts', lists'[boards'[b].hex_states])
                      = ListView(dicts, ListOf(b))
          /\ (/\ last_call'.outcome = "ok"
              /\ last_call'.arg[1] \in Cells
              /\ last_call'.arg[2] \in Cells) =>
                LET original == CellView(dicts, ListOf(last_call'.board))
                    new_board == boards'[Len(boards')]
                    produced == CellView(dicts', lists'[new_board.hex_states])
                IN  /\ Len(boards') = Len(boards) + 1
                    /\ new_board._hash = NoHash
                    /\ \A i \in Cells :
                          produced[i].element =
                              IF i \in {last_call'.arg[1], last_call'.arg[2]}
                              THEN "EMPTY" ELSE original[i].element
                    /\ produced = _update_unlock_status(produced)]_vars

\* a move was applied to the board an earlier move produced from an updated
\* board: the first board still holds both FIRE tokens, the second lost
\* them, the third is the second with another pair of cells emptied
C11_Witness ==
    /\ last_call.op = "apply_move"
    /\ last_call.outcome = "ok"
    /\ last_call.board = 2
    /\ last_call.arg = <<neighbors[PlayCenter][1], neighbors[PlayCenter][4]>>
    /\ Len(boards) = 3
    /\ ListView(dicts, ListOf(1))[PlayCenter + 1].element = "FIRE"
    /\ ListView(dicts, ListOf(1))[neighbors[PlayCenter][1] + 1].element = "FIRE"
    /\ ListView(dicts, ListOf(2))[PlayCenter + 1].element = "EMPTY"
    /\ ListView(dicts, ListOf(2))[neighbors[PlayCenter][4] + 1].element = "UNKNOWN"
    /\ ListView(dicts, ListOf(3))[neighbors[PlayCenter][4] + 1].element = "EMPTY"

\* C12: find_possible_moves returns, without repetition and smaller index
\* first, exactly the pairs of unlocked cells that _is_valid_match accepts;
\* no returned move touches an EMPTY, OUT_OF_BOUNDS or UNKNOWN cell or a
\* locked cell.
C12_ExactMoves ==
    last_op # "__init__" =>
        LET possible_moves == find_possible_moves(hex_states)
            returned == {possible_moves[k] : k \in 1..Len(possible_moves)}
        IN  /\ returned = {m \in Cells \X Cells :
                              /\ m[1] < m[2]
                              /\ hex_states[m[1]].unlocked
                              /\ hex_states[m[2]].unlocked
                              /\ _is_valid_match(hex_states, m[1], m[2])}
            /\ Cardinality(returned) = Len(possible_moves)
            /\ \A m \in returned :
                  /\ Token(hex_states, m[1]) /\ Token(hex_states, m[2])
                  /\ \E s \in 0..5 : EmptyRun(hex_states, m[1], s)
                  /\ \E s \in 0..5 : EmptyRun(hex_states, m[2], s)

\* several moves are returned while a locked token that matches an unlocked
\* one is left out
C12_Witness ==
    /\ last_op = "apply_move"
    /\ Len(find_possible_moves(hex_states)) >= 2
    /\ \E i \in Cells, j \in Cells :
          /\ Token(hex_states, i) /\ ~hex_states[i].unlocked
          /\ Token(hex_states, j) /\ hex_states[j].unlocked
          /\ _is_valid_match(hex_states, i, j)

\* C13: within one run of solve no board is tested with is_solved (and
\* expanded) twice, and a popped node whose board is already in closed_set
\* is dropped at once: nothing is added to closed_set or to the frontier,
\* no solved test is made and the loop goes on.
C13_ExpandOnce ==
    [][/\ \A k \in 1..Len(expanded'), l \in 1..Len(expanded') :
              k # l => expanded'[k] # expanded'[l]
       /\ (pops' = pops + 1 /\ heappop_item(open_set).board \in closed_set) =>
              /\ expanded' = expanded
              /\ closed_set' = closed_set
              /\ open_set' = heappop_rest(open_set)
              /\ pc' = "loop"
              /\ result' = result]_vars

\* a run in which a board reached by two move orders was popped twice and
\* dropped the second time
C13_Witness ==
    /\ pops > Len(expanded)
    /\ Len(expanded) >= 3
    /\ \E k \in 1..Len(expanded) : \E t \in 1..Len(open_set) :
          open_set[t].board = expanded[k]

\* GameBoard.__hash__ as a value: the cached hash when there is one, the
\* hash of the current list otherwise
CachedOrFreshHash(b) ==
    IF boards[b]._hash = NoHash THEN tuple_hash(dicts, ListOf(b))
    ELSE boards[b]._hash[1]

\* GameBoard.__eq__ on two board objects
EqualBoards(b1, b2) == CachedOrFreshHash(b1) = CachedOrFreshHash(b2)

\* C14: two boards are == exactly when their lists agree, index by index,
\* on the classification and on the unlocked flag.
C14_BoardIdentity ==
    \A b1, b2 \in 1..Len(boards) :
        EqualBoards(b1, b2) <=>
            /\ Len(ListOf(b1)) = Len(ListOf(b2))
            /\ \A k \in 1..Len(ListOf(b1)) :
                  LET d1 == ListView(dicts, ListOf(b1))[k]
                      d2 == ListView(dicts, ListOf(b2))[k]
                  IN  /\ d1.element = d2.element
                      /\ ("unlocked" \in DOMAIN d1) = ("unlocked" \in DOMAIN d2)
                      /\ GetUnlocked(d1) = GetUnlocked(d2)

\* C15: the cached hash of every board is absent or is the hash of the
\* board's current list.
C15_HashCacheValid ==
    \A b \in 1..Len(boards) :
        \/ boards[b]._hash = NoHash
        \/ boards[b]._hash[1] = tuple_hash(dicts, ListOf(b))

\* C16: update_board_state with a list whose length is not the cell count
\* raises ValueError and leaves the board's list, cells, unlocked flags and
\* cached hash untouched; with a list of the right length it returns, and
\* the board then holds the entries of the list in index order, each with
\* the unlocked flag _update_unlock_status computes.
C16_UpdateBoardState ==
    [][(last_call'.op = "update_board_state" /\ calls' = calls + 1) =>
          LET b == last_call'.board
              identified == last_call'.arg
          IN  IF Len(identified) # NumCells
              THEN /\ last_call'.outcome = "ValueError"
                   /\ boards'[b] = boards[b]
                   /\ ListView(dicts', lists'[boards'[b].hex_states])
                         = ListView(dicts, ListOf(b))
              ELSE /\ last_call'.outcome = "ok"
                   /\ CellView(dicts', lists'[boards'[b].hex_states])
                         = _update_unlock_status([i \in Cells |-> identified[i + 1]])]_vars

\* a board that was updated and hashed refused a list one entry short
C16_Witness ==
    /\ last_call.op = "update_board_state"
    /\ last_call.outcome = "ValueError"
    /\ Len(last_call.arg) = NumCells - 1
    /\ boards[last_call.board]._hash # NoHash
    /\ ListView(dicts, ListOf(last_call.board))[PlayCenter + 1].element = "FIRE"

\* C17: apply_move raises whenever an index of the move is not a cell
\* index, negative indices included.
C17_OutOfRangeFails ==
    (/\ last_call.op = "apply_move"
     /\ \E k \in 1..2 : last_call.arg[k] \notin Cells)
        => last_call.outcome = "IndexError"

\* the lengths of the legal move sequences that take the board to a solved
\* board
RECURSIVE SolutionLengths(_)
SolutionLengths(hs) ==
    IF is_solved(hs) THEN {0}
    ELSE LET possible_moves == find_possible_moves(hs)
         IN  UNION {{n + 1 : n \in SolutionLengths(apply_move(hs, possible_moves[k]))} :
                        k \in 1..Len(possible_moves)}

\* C18: a path returned by solve is no longer than any legal move sequence
\* that takes the initial board to a solved board, whatever the weights.
C18_MinimalLength ==
    (pc = "done" /\ ~result.none) =>
        \A n \in SolutionLengths(hex_states) : Len(result.path) <= n

\* a returned path of two moves, under weights other than the defaults, on
\* a board whose first move can be chosen in several ways
C18_Witness ==
    /\ pc = "done"
    /\ ~result.none
    /\ h_weights # DefaultWeights
    /\ Len(result.path) = 2
    /\ Len(find_possible_moves(hex_states)) >= 3

\* a leaf with its three fields whose variable is none of the four metrics
\* or whose operator is none of the six comparison names
UnknownLeaf(leaf) ==
    /\ {"variable", "operator", "value"} \subseteq DOMAIN leaf
    /\ \/ leaf.variable \notin {"iteration", "open_set_size", "best_g_cost",
                                 "elapsed_time"}
       \/ leaf.operator \notin {">", "<", "==", "!=", ">=", "<="}

\* a leaf with its three fields, known variable and operator, and a value
\* the operator can compare with a number
ComparableLeaf(leaf) ==
    /\ {"variable", "operator", "value"} \subseteq DOMAIN leaf
    /\ ~UnknownLeaf(leaf)
    /\ "num" \in DOMAIN leaf.value \/ leaf.operator \in {"==", "!="}

\* the comparison a comparable leaf states holds of the metrics
LeafHolds(leaf, v) ==
    IF "num" \in DOMAIN leaf.value
    THEN ops(leaf.operator, v[leaf.variable], leaf.value.num)
    ELSE leaf.operator = "!="

\* the configuration is a group of leaves, each unknown or comparable
GroupOfLeaves(config) ==
    /\ "condition_set" \in DOMAIN config
    /\ {"logic", "conditions"} \subseteq DOMAIN config.condition_set
    /\ \A k \in 1..Len(config.condition_set.conditions) :
          LET leaf == config.condition_set.conditions[k]
          IN  /\ "logic" \notin DOMAIN leaf
              /\ UnknownLeaf(leaf) \/ ComparableLeaf(leaf)

\* C19: in a group of leaves, a leaf with an unknown variable or operator
\* counts as false and raises nothing: the check ends with a boolean, which
\* for AND is true iff every leaf is known and holds, and for OR is true
\* iff some known leaf holds.
C19_UnknownLeafIsFalse ==
    (check_outcome # "none" /\ GroupOfLeaves(interrupt_config)) =>
        LET group == interrupt_config.condition_set
            n == Len(group.conditions)
            True(k) == /\ ~UnknownLeaf(group.conditions[k])
                       /\ LeafHolds(group.conditions[k], check_values)
        IN  /\ check_outcome \in {"True", "False"}
            /\ group.logic = "AND" =>
                  ((check_outcome = "True") = (\A k \in 1..n : True(k)))
            /\ group.logic \in {"OR", "or"} =>
                  ((check_outcome = "True") = (\E k \in 1..n : True(k)))

\* an OR of a leaf with an unknown variable and a leaf that holds: true
C19_Witness ==
    /\ check_outcome = "True"
    /\ GroupOfLeaves(interrupt_config)
    /\ interrupt_config.condition_set.logic = "OR"
    /\ Len(interrupt_config.condition_set.conditions) = 2
    /\ UnknownLeaf(interrupt_config.condition_set.conditions[1])
    /\ interrupt_config.condition_set.conditions[1].variable = "depth"

\* C20: no enabled interrupt configuration makes the interrupt check raise
\* out of the search loop.
C20_NoAbort ==
    ending # "raised"

\* a tree whose groups have logic and conditions and whose leaves are
\* comparable: known variable and operator, and a value the operator can
\* compare with a number
RECURSIVE WellFormed(_)
WellFormed(tree) ==
    /\ {"logic", "conditions"} \subseteq DOMAIN tree
    /\ \A k \in 1..Len(tree.conditions) :
          IF "logic" \in DOMAIN tree.conditions[k]
          THEN WellFormed(tree.conditions[k])
          ELSE ComparableLeaf(tree.conditions[k])

\* the boolean expression a well-formed tree stands for, with the logic
\* names in conj read as AND and those in disj read as OR
RECURSIVE Denotes(_, _, _, _)
Denotes(tree, v, conj, disj) ==
    IF "logic" \notin DOMAIN tree THEN LeafHolds(tree, v)
    ELSE IF tree.logic \in conj
    THEN \A k \in 1..Len(tree.conditions) : Denotes(tree.conditions[k], v, conj, disj)
    ELSE IF tree.logic \in disj
    THEN \E k \in 1..Len(tree.conditions) : Denotes(tree.conditions[k], v, conj, disj)
    ELSE FALSE

\* C21 as stated: on a well-formed tree the check returns the value of
\* the boolean expression in which a group is the conjunction of its
\* conditions when its logic is AND, their disjunction when it is OR, and
\* false for any other logic.
C21_TreeSemantics ==
    (/\ check_outcome # "none"
     /\ "condition_set" \in DOMAIN interrupt_config
     /\ WellFormed(interrupt_config.condition_set)) =>
        /\ check_outcome \in {"True", "False"}
        /\ (check_outcome = "True") =
              (/\ Enabled(interrupt_config)
               /\ Denotes(interrupt_config.condition_set, check_values,
                          {"AND"}, {"OR"}))

\* C21 amended: the same, with the logic of a group read without regard
\* to case (and is AND, or is OR).
C21_TreeSemanticsAnyCase ==
    (/\ check_outcome # "none"
     /\ "condition_set" \in DOMAIN interrupt_config
     /\ WellFormed(interrupt_config.condition_set)) =>
        /\ check_outcome \in {"True", "False"}
        /\ (check_outcome = "True") =
              (/\ Enabled(interrupt_config)
               /\ Denotes(interrupt_config.condition_set, check_values,
                          {"AND", "and"}, {"OR", "or"}))

\* a tree three groups deep fired although its first leaf is false: the
\* lower-case group inside it holds
C21_Witness ==
    /\ check_outcome = "True"
    /\ "condition_set" \in DOMAIN interrupt_config
    /\ WellFormed(interrupt_config.condition_set)
    /\ interrupt_config.condition_set.logic = "OR"
    /\ Len(interrupt_config.condition_set.conditions) = 2
    /\ ~LeafHolds(interrupt_config.condition_set.conditions[1], check_values)
    /\ interrupt_config.condition_set.conditions[2].logic = "and"
    /\ interrupt_config.condition_set.conditions[2].conditions[2].logic = "or"

\* the weight a construction supplies under a name, as a set: the
\* argument's when the argument counts, else the file's
Supplied(given) ==
    IF given.heuristic_weights.kind = "object" THEN given.heuristic_weights.value
    ELSE IF GetHeuristicWeights(given.solver_config).kind = "object"
    THEN GetHeuristicWeights(given.solver_config).value
    ELSE [k \in {} |-> 0]

\* C22: whatever the argument and the files hold, the construction ends
\* without an exception, with all four weights defined, the supplied ones
\* as supplied and the others at their defaults; the heuristic then never
\* raises for a missing weight.
C22_ConstructionTotal ==
    /\ ctor_outcome \in {"none", "ok"}
    /\ ctor_outcome = "ok" =>
          /\ DOMAIN h_weights = WeightNames
          /\ \A k \in WeightNames :
                h_weights[k] = IF k \in DOMAIN Supplied(ctor_args)
                               THEN Supplied(ctor_args)[k]
                               ELSE DefaultWeights[k]
    /\ h_outcome # <<>> => ~h_outcome.raised

\* C23: a solver with the default interrupt configuration, the one
\* _load_interrupt_config leaves when there is no file, never ends a search
\* at the interrupt check, neither by returning there nor by an exception
\* of the evaluator: its runs end with a solution or by exhaustion.
C23_DefaultNeverInterrupts ==
    interrupt_config = _load_interrupt_config(Absent) =>
        /\ ending \in {"none", "solved", "exhausted"}
        /\ pc = "done" => ending \in {"solved", "exhausted"}

\* a search with the default configuration went through several interrupt
\* checks and ended by exhaustion
C23_Witness ==
    /\ interrupt_config = _load_interrupt_config(Absent)
    /\ pc = "done"
    /\ ending = "exhausted"
    /\ iteration >= 3

\* what a run is without its sinks: frontier, closed set, iteration count,
\* position, result, the boards expanded in order, and the caller's board
Core(r) ==
    [open_set |-> r.open_set, closed_set |-> r.closed_set,
     iteration |-> r.iteration, pc |-> r.pc, result |-> r.result,
     ending |-> r.ending, expanded |-> r.expanded,
     initial_board |-> r.initial_board]

\* C24: solvers that differ only in the sinks attached, solving the same
\* board, stay equal step by step in frontier, closed set, expanded boards
\* and result, and the board handed to solve stays what it was.
C24_SinkIndependence ==
    runs # <<>> =>
        \A s \in SinkChoices :
            /\ Core(runs[s]) = Core(runs[<<FALSE, FALSE>>])
            /\ runs[s].initial_board = hex_states

\* the run with both sinks attached returned a solution of two moves: the
\* overlay got its lines, the visualizer its nodes and the solution path
C24_Witness ==
    /\ runs # <<>>
    /\ runs[<<TRUE, TRUE>>].ending = "solved"
    /\ Len(runs[<<TRUE, TRUE>>].result.path) = 2
    /\ Len(runs[<<TRUE, TRUE>>].solution_path_hashes) = 3
    /\ Len(runs[<<TRUE, TRUE>>].nodes) >= 3
    /\ runs[<<TRUE, TRUE>>].drawn
    /\ Len(runs[<<TRUE, TRUE>>].messages) = 3
    /\ runs[<<FALSE, FALSE>>].nodes = <<>>
    /\ runs[<<FALSE, FALSE>>].messages = <<>>
    /\ Len(runs[<<FALSE, FALSE>>].stdout) = 2

\* the board is EMPTY except for cells i and j, which hold the same basic
\* element
TwoAlike(hs, i, j) ==
    /\ i < j
    /\ hs[i].element \in basic_elements
    /\ hs[j].element = hs[i].element
    /\ \A c \in Cells \ {i, j} : hs[c].element = "EMPTY"

\* C25: with the default weights and the default interrupt configuration,
\* solve on a board that is EMPTY except for two cells i < j holding the
\* same basic element ends only by returning, from a popped node of
\* g_cost 1, the path of the one move (i, j).
C25_TwoAlikeSolved ==
    [][(/\ h_weights = DefaultWeights
        /\ interrupt_config = DisabledInterrupt
        /\ pc # "done"
        /\ pc' = "done") =>
          \A i, j \in Cells :
              TwoAlike(hex_states, i, j) =>
                  /\ pc = "pop"
                  /\ heappop_item(open_set).g_cost = 1
                  /\ ending' = "solved"
                  /\ result' = PathResult(<< <<i, j>> >>)]_vars

\* such a search returned for two WATER tokens that are not adjacent
C25_Witness ==
    /\ h_weights = DefaultWeights
    /\ interrupt_config = DisabledInterrupt
    /\ TwoAlike(hex_states, Min(neighbors[PlayCenter][1], neighbors[PlayCenter][4]),
                Max(neighbors[PlayCenter][1], neighbors[PlayCenter][4]))
    /\ hex_states[neighbors[PlayCenter][1]].element = "WATER"
    /\ pc = "done"
    /\ ending = "solved"
    /\ iteration = 2

\* the board is EMPTY except for cell i, which holds a token
SingleToken(hs, i) ==
    /\ hs[i].element \notin Sentinels
    /\ \A c \in Cells \ {i} : hs[c].element = "EMPTY"

\* C26: with the interrupt disabled, solve on a board whose only token is
\* not GOLD tests the initial board alone, finds no move for it, and ends
\* by exhaustion after one iteration with an empty frontier and the
\* no-solution result; when the only token is GOLD it returns the empty
\* path.
C26_SingleToken ==
    (/\ ~Enabled(interrupt_config)
     /\ pc = "done") =>
        \A i \in Cells :
            SingleToken(hex_states, i) =>
                /\ expanded = <<hex_states>>
                /\ iteration = 1
                /\ IF hex_states[i].element = "GOLD"
                   THEN /\ ending = "solved"
                        /\ result = PathResult(<<>>)
                   ELSE /\ find_possible_moves(hex_states) = <<>>
                        /\ open_set = <<>>
                        /\ ending = "exhausted"
                        /\ result = NoSolutionFound

\* the search on a single SILVER token ended by exhaustion
C26_Witness ==
    /\ ~Enabled(interrupt_config)
    /\ pc = "done"
    /\ SingleToken(hex_states, PlayCenter)
    /\ hex_states[PlayCenter].element = "SILVER"
    /\ ending = "exhausted"

\* C27: whenever solve is about to pop, the entry it pops has the least
\* f_cost of the frontier and, among the entries of that f_cost, the least
\* g_cost: the frontier is ordered by f_cost first and g_cost second.
C27_BestFirst ==
    pc = "pop" =>
        \A k \in 1..Len(open_set) :
            /\ heappop_item(open_set).f_cost <= open_set[k].f_cost
            /\ open_set[k].f_cost = heappop_item(open_set).f_cost =>
                  heappop_item(open_set).g_cost <= open_set[k].g_cost

\* a pop from a frontier of at least four entries, one of them with a
\* larger f_cost than the popped one and one with the same f_cost and
\* another g_cost
C27_Witness ==
    /\ pc = "pop"
    /\ Len(open_set) >= 4
    /\ \E k \in 1..Len(open_set) : open_set[k].f_cost > open_set[1].f_cost
    /\ \E k \in 1..Len(open_set) :
          /\ open_set[k].f_cost = open_set[1].f_cost
          /\ open_set[k].g_cost # open_set[1].g_cost

\* C28: of two frontier entries with equal f_cost and different g_cost, the
\* one with the larger g_cost is popped first: no entry is popped while the
\* frontier holds an entry of the same f_cost and a larger g_cost.
C28_DeeperFirst ==
    pc = "pop" =>
        \A k \in 1..Len(open_set) :
            open_set[k].f_cost = heappop_item(open_set).f_cost =>
                open_set[k].g_cost <= heappop_item(open_set).g_cost

\* the progress line a run reported in its last iteration: on the overlay
\* when there is one, else on the terminal; a line that ends the search
\* comes after it
ReportedLine(r, overlay_manager) ==
    LET lines == IF overlay_manager THEN r.messages ELSE r.stdout
    IN  IF r.ending \in {"interrupted", "solved"} THEN lines[Len(lines) - 1]
        ELSE lines[Len(lines)]

\* C29: every iteration of the loop, one that discards a closed node
\* included, adds one to iteration, reports a progress line and calls the
\* interrupt check with the same four values: the new iteration count, the
\* size of the frontier before the pop, the g_cost of the frontier's head
\* and the elapsed time; when the check fires, frontier, closed set and
\* expanded boards are left as they were, and otherwise the head is popped.
C29_IterationOrder ==
    [][\A s \in SinkChoices :
          (/\ runs # <<>>
           /\ runs[s].pc = "loop"
           /\ runs[s].open_set # <<>>
           /\ runs'[s] # runs[s]) =>
              LET r == runs[s]
                  after == runs'[s]
                  values == after.checked
              IN  /\ after.iteration = r.iteration + 1
                  /\ values.iteration = after.iteration
                  /\ values.open_set_size = Len(r.open_set)
                  /\ values.best_g_cost = heappop_item(r.open_set).g_cost
                  /\ ReportedLine(after, s[1]) =
                        [I |-> values.iteration, Q |-> values.open_set_size,
                         P |-> values.best_g_cost, T |-> values.elapsed_time]
                  /\ after.ending = "interrupted" =>
                        /\ after.open_set = r.open_set
                        /\ after.closed_set = r.closed_set
                        /\ after.expanded = r.expanded
                  /\ after.ending \notin {"interrupted", "raised"} =>
                        /\ Len(after.open_set) >= Len(r.open_set) - 1
                        /\ after.open_set # r.open_set
                        /\ \/ after.expanded = Append(r.expanded, heappop_item(r.open_set).board)
                           \/ /\ after.expanded = r.expanded
                              /\ InClosedSet(heappop_item(r.open_set).board, r.closed_set)]_vars

\* an interrupt fired after an iteration that only discarded a closed
\* node: iteration counts that one too
C29_Witness ==
    /\ runs # <<>>
    /\ runs[<<TRUE, FALSE>>].ending = "interrupted"
    /\ runs[<<TRUE, FALSE>>].iteration = MaxK + 1
    /\ Len(runs[<<TRUE, FALSE>>].expanded) < MaxK
    /\ runs[<<TRUE, FALSE>>].checked.open_set_size = Len(runs[<<TRUE, FALSE>>].open_set)

\* the entries of a frontier, as a set
Entries(heap) == {heap[k] : k \in 1..Len(heap)}

\* the number of cells of hs that satisfy P
CountCells(hs, P(_)) == Cardinality({i \in Cells : P(hs[i])})

IsToken(h) == h.element \notin {"EMPTY", "OUT_OF_BOUNDS", "UNKNOWN"}
IsLockedToken(h) == IsToken(h) /\ ~GetUnlocked(h)
IsSalt(h) == h.element = "SALT"
IsMetal(h) ==
    h.element \in {"LEAD", "TIN", "IRON", "COPPER", "SILVER", "GOLD", "QUICKSILVER"}

\* h of the claim, in tenths like the weights
StatedHeuristic(hs, w) ==
    CountCells(hs, IsToken) * w.remaining_elements_factor
        + CountCells(hs, IsLockedToken) * w.locked_marbles_penalty
        - CountCells(hs, IsSalt) * w.salt_marbles_reward
        + CountCells(hs, IsMetal) * w.metal_marbles_penalty

\* C30: every entry an expansion adds to the frontier belongs to a move of
\* the expanded node: its board is the node's board after the move, its
\* path the node's path with the move appended, its parent the node's
\* board, its g_cost the node's g_cost plus one and the length of its path,
\* and its f_cost that g_cost plus the heuristic of its board.
C30_NodeCosts ==
    [][(pc = "pop" /\ pc' = "loop") =>
          LET node == heappop_item(open_set)
          IN  \A e \in Entries(open_set') \ Entries(open_set) :
                  /\ e.g_cost = node.g_cost + 1
                  /\ e.g_cost = Len(e.path)
                  /\ e.parent_board = <<node.board>>
                  /\ \E k \in 1..Len(find_possible_moves(node.board)) :
                        LET move == find_possible_moves(node.board)[k]
                        IN  /\ e.path = node.path \o <<move>>
                            /\ e.board = apply_move(node.board, move)
                  /\ e.f_cost = e.g_cost * GScale + StatedHeuristic(e.board, h_weights)]_vars

\* the frontier holds a successor of the initial board with a SALT, a
\* GOLD and a locked token left, costed with weights other than the defaults
C30_Witness ==
    /\ pc = "loop"
    /\ h_weights # DefaultWeights
    /\ \E k \in 1..Len(open_set) :
          /\ open_set[k].g_cost = 1
          /\ CountCells(open_set[k].board, IsSalt) = 1
          /\ CountCells(open_set[k].board, IsMetal) = 1
          /\ CountCells(open_set[k].board, IsLockedToken) >= 1

\* board b came out of update_board_state or apply_move: its list holds
\* dicts of its own (the list GameBoard(gm) builds holds one dict at every
\* index, and no other list of one entry per cell does)
Produced(b) ==
    /\ Len(ListOf(b)) = NumCells
    /\ \E j, k \in 1..NumCells : ListOf(b)[j] # ListOf(b)[k]

\* C31: find_possible_moves on a board that update_board_state or
\* apply_move produced changes nothing: the board keeps its list, the cells
\* of every board keep their classification, state and unlocked flag, the
\* cached hashes stay, and every board has the hash it had and is == to the
\* boards it was == to.
C31_FindMovesFrame ==
    [][(/\ last_call'.op = "find_possible_moves"
        /\ calls' = calls + 1
        /\ Produced(last_call'.board)) =>
          /\ lists' = lists
          /\ boards' = boards
          /\ \A b \in 1..Len(boards) :
                /\ ListView(dicts', lists'[boards'[b].hex_states])
                      = ListView(dicts, ListOf(b))
                /\ CachedOrFreshHash(b)' = CachedOrFreshHash(b)
                /\ \A c \in 1..Len(boards) :
                      EqualBoards(b, c)' = EqualBoards(b, c)]_vars

\* find_possible_moves ran on an updated board that holds a locked SALT
\* inside a ring of unlocked FIRE tokens
C31_Witness ==
    /\ last_call.op = "find_possible_moves"
    /\ Produced(last_call.board)
    /\ LET hs == CellView(dicts, ListOf(last_call.board))
       IN  /\ hs[PlayCenter].element = "SALT"
           /\ ~hs[PlayCenter].unlocked
           /\ hs[neighbors[PlayCenter][1]].element = "FIRE"
           /\ hs[neighbors[PlayCenter][1]].unlocked

\* C32: ordering two entries of the frontier never raises, whichever of
\* the two is on the left, and of two entries with the same f_cost and
\* g_cost and different boards neither is before the other.
C32_FrontierComparable ==
    \A k \in 1..Len(open_set), t \in 1..Len(open_set) :
        k # t =>
            /\ ~TupleLtRaises(open_set[k], open_set[t])
            /\ (/\ open_set[k].f_cost = open_set[t].f_cost
                /\ open_set[k].g_cost = open_set[t].g_cost
                /\ ~__eq__(open_set[k].board, open_set[t].board)) =>
                   /\ ~TupleLt(open_set[k], open_set[t])
                   /\ ~TupleLt(open_set[t], open_set[k])

\* the frontier holds two entries of the same costs with the same board,
\* reached by different paths, and a third of the same costs with another
\* board
C32_Witness ==
    \E k \in 1..Len(open_set), t \in 1..Len(open_set), u \in 1..Len(open_set) :
        /\ open_set[k].f_cost = open_set[t].f_cost
        /\ open_set[k].g_cost = open_set[t].g_cost
        /\ __eq__(open_set[k].board, open_set[t].board)
        /\ open_set[k].path # open_set[t].path
        /\ open_set[u].f_cost = open_set[k].f_cost
        /\ open_set[u].g_cost = open_set[k].g_cost
        /\ ~__eq__(open_set[u].board, open_set[k].board)

\* the node events of a run and its expanded boards go together: the first
\* event is that of the initial board, event k (k > 1) is that of the k-th
\* expanded board
EventOfExpanded(r, k) ==
    /\ r.nodes[k].node_hash = __hash__(r.expanded[k])
    /\ ~r.nodes[k].is_initial
    /\ \E j \in 1..(k - 1) :
          /\ r.nodes[k].parent_hash = <<r.nodes[j].node_hash>>
          /\ r.nodes[k].g_cost = r.nodes[j].g_cost + 1
          /\ \E t \in 1..Len(find_possible_moves(r.expanded[j])) :
                r.expanded[k] =
                    apply_move(r.expanded[j], find_possible_moves(r.expanded[j])[t])

\* C33: with a visualizer attached there is one add_node call for the
\* initial board (is_initial true, no parent, g_cost 0) and one for every
\* other expanded board, in the order of expansion, carrying the hash of the
\* board, the hash of the expanded board it was generated from and its
\* g_cost; a popped node that is dropped as closed adds no call, so no hash
\* occurs in two calls.  When solve returns a path, set_solution_path got
\* len(path) + 1 hashes: that of the initial board first, then that of the
\* board after each move of the path, the last one the solved board.
C33_NodeEvents ==
    runs # <<>> =>
        \A s \in SinkChoices :
            s[2] =>
                LET r == runs[s]
                IN  /\ Len(r.nodes) = Max(1, Len(r.expanded))
                    /\ r.nodes[1] = [node_hash |-> __hash__(hex_states),
                                     parent_hash |-> <<>>, g_cost |-> 0,
                                     h_cost |-> 0, is_initial |-> TRUE]
                    /\ r.expanded # <<>> => r.expanded[1] = hex_states
                    /\ \A k \in 2..Len(r.expanded) : EventOfExpanded(r, k)
                    /\ \A j \in 1..Len(r.nodes), k \in 1..Len(r.nodes) :
                          j # k => r.nodes[j].node_hash # r.nodes[k].node_hash
                    /\ IF r.ending = "solved"
                       THEN /\ Len(r.solution_path_hashes) = Len(r.result.path) + 1
                            /\ \A k \in 0..Len(r.result.path) :
                                  r.solution_path_hashes[k + 1] =
                                      __hash__(Replay(hex_states,
                                                      SubSeq(r.result.path, 1, k)))
                            /\ r.solution_path_hashes[Len(r.solution_path_hashes)]
                                  = __hash__(r.expanded[Len(r.expanded)])
                            /\ is_solved(r.expanded[Len(r.expanded)])
                       ELSE r.solution_path_hashes = <<>>

\* a run with a visualizer returned a path of three moves after dropping a
\* popped node that was already closed
C33_Witness ==
    /\ runs # <<>>
    /\ LET r == runs[<<FALSE, TRUE>>]
       IN  /\ r.ending = "solved"
           /\ Len(r.result.path) = 3
           /\ r.iteration > Len(r.expanded)
           /\ Len(r.nodes) >= 4

\* C34: with N the number of tokens of the initial board, every entry of
\* the frontier with g_cost g holds a board of N - 2g tokens and g is at
\* most floor(N/2); every move find_possible_moves returns for such a board
\* names two different cells that hold tokens; a returned path has
\* floor(N/2) moves, and when N is odd the board it ends on holds a single
\* GOLD.
C34_TokenCount ==
    LET N == CountCells(hex_states, IsToken)
    IN  /\ \A k \in 1..Len(open_set) :
              LET e == open_set[k]
                  possible_moves == find_possible_moves(e.board)
              IN  /\ CountCells(e.board, IsToken) = N - 2 * e.g_cost
                  /\ e.g_cost <= N \div 2
                  /\ \A t \in 1..Len(possible_moves) :
                        /\ possible_moves[t][1] # possible_moves[t][2]
                        /\ Token(e.board, possible_moves[t][1])
                        /\ Token(e.board, possible_moves[t][2])
        /\ ending = "solved" =>
              /\ Len(result.path) = N \div 2
              /\ N % 2 = 1 =>
                    LET final == expanded[Len(expanded)]
                    IN  /\ CountCells(final, IsToken) = 1
                        /\ CountCells(final, LAMBDA h : h.element = "GOLD") = 1

\* solve returned two moves for a board of five tokens, which left the GOLD
C34_Witness ==
    /\ ending = "solved"
    /\ CountCells(hex_states, IsToken) = 5
    /\ Len(result.path) = 2
    /\ CountCells(expanded[Len(expanded)], IsToken) = 1

\* C35: apply_move never locks a token: a cell that holds an unlocked token
\* before the move and still holds a token after it (the move did not
\* involve it) is unlocked in the new board.
C35_UnlockMonotone ==
    [][last_op' = "apply_move" =>
          \A i \in Cells :
              (/\ Token(hex_states, i)
               /\ hex_states[i].unlocked
               /\ Token(hex_states', i)) => hex_states'[i].unlocked]_vars

\* after a move the board holds a token that was locked in the board
\* update_board_state built and is unlocked now, and a second token, which
\* was unlocked then and is unlocked still
C35_Witness ==
    /\ last_op = "apply_move"
    /\ \E i \in Cells, j \in Cells :
          /\ Token(hex_states, i) /\ hex_states[i].unlocked
          /\ ~is_unlocked(_update_unlock_status(identified_elements), i)
          /\ j # i
          /\ Token(hex_states, j) /\ hex_states[j].unlocked
          /\ is_unlocked(_update_unlock_status(identified_elements), j)

\* C36: run_single_cycle returns True, and hands the path to the input
\* manager, exactly when solve returned a list of moves, the empty list of
\* an already solved board included.
C36_SuccessIffSolved ==
    success # "none" =>
        /\ success = "True" <=> ~result.none
        /\ executed_solution = IF result.none THEN <<>> ELSE <<result.path>>

\* C37: get_current_game_board leaves every cell of the simulator as it
\* was, classification and unlocked flag; and eliminate_single_element
\* succeeds only on a cell that the simulator's own unlock rule leaves
\* unlocked, so not on a metal below which a lower metal is still there.
C37_GetBoardFrame ==
    [][/\ (/\ sim_call'.op = "get_current_game_board"
           /\ sim_call'.n = sim_call.n + 1) =>
              hex_lists'[simulator'.hex_states] = SimCells
       /\ (/\ sim_call'.op = "eliminate_single_element"
           /\ sim_call'.n = sim_call.n + 1
           /\ sim_call'.outcome = "True") =>
              PuzzleSimulator_update_unlock_status(SimCells)[sim_call'.arg].unlocked
      ]_vars

C39_RunCount ==
    /\ (argv.flag /\ argv.value # <<>>) =>
          LET N == argv.value[1]
          IN  /\ Len(cycles) <= N
              /\ main_pc = "loop" => clicks = Min(Len(cycles), Max(N - 1, 0))
              /\ (main_pc = "after_loop" /\ args.continuous) => Len(cycles) = N
              /\ main_pc = "finished" =>
                    /\ Len(cycles) = N
                    /\ clicks = Max(N - 1, 0)
    /\ ~argv.flag =>
          /\ Len(cycles) <= 1
          /\ clicks = 0
          /\ main_pc = "finished" => Len(cycles) = 1
    /\ (argv.flag /\ argv.value = <<>>) =>
          /\ main_pc \notin {"after_loop", "finished"}
          /\ main_pc = "loop" => clicks = Len(cycles)

\* '-c 3' is through after a cycle that failed and two that succeeded
C39_Witness ==
    /\ argv = [flag |-> TRUE, value |-> <<3>>]
    /\ main_pc = "finished"
    /\ cycles = <<"False", "True", "True">>
    /\ clicks = 2

----------------------------------------------------------------------------
====
